---- MODULE Spec2Model ----
(***************************************************************************)
(* Model of the incident-response pipeline: the target service, the        *)
(* health monitor (IncidentDetector), the remediation executor, the        *)
(* memory store and the Orchestrator that drives an incident from          *)
(* detection to resolution.                                                *)
(***************************************************************************)
EXTENDS Integers, Sequences, FiniteSets, TLC

\* ---------------------------------------------------------------- bounds
MaxSamples == 3      \* health samples the monitor takes in one behaviour
MaxFaults  == 2      \* /trigger-incident requests served in one behaviour
MaxSaveFailures == 1 \* saves of the store that fail in one behaviour
MaxDemoRounds == 1   \* rounds of runDemo taken in one behaviour

\* ------------------------------------------------------ program constants
ChanCap   == 10      \* make(chan *models.Incident, 10)
maxLogs   == 50      \* TargetService.maxLogs
NumProbes == 3       \* verifyResolution: for i := 0; i < 3; i++

\* models/incident.go
ServiceDown        == "SERVICE_DOWN"
ConfigError        == "CONFIG_ERROR"
ResourceExhaustion == "RESOURCE_EXHAUSTION"
DependencyFailure  == "DEPENDENCY_FAILURE"
IncidentType       == {ServiceDown, ConfigError, ResourceExhaustion, DependencyFailure}

StatusDetected  == "DETECTED"
StatusAnalyzing == "ANALYZING"
StatusFixing    == "FIXING"
StatusResolved  == "RESOLVED"
StatusFailed    == "FAILED"

\* an optional value (a nil pointer, a local not yet assigned): <<>> or <<v>>
None == <<>>
Some(v) == <<v>>

VARIABLES
    svc,              \* TargetService: isRunning, isHealthy, config, errorLogs
    mpc,              \* monitorLoop: position of the monitor goroutine
    previousHealthy,  \* monitorLoop: local previousHealthy
    mloc,             \* monitorLoop: locals of the iteration in progress
    incidentChannel,  \* IncidentDetector.incidentChannel (ids of queued incidents)
    inc,              \* the heap of *models.Incident objects, indexed by id
    opc,              \* Orchestrator: position in handleIncidents/processIncident
    cur,              \* Orchestrator: the incident being processed (0: none)
    oloc,             \* Orchestrator: locals of processIncident
    storeIncidents,   \* Store.incidents (ids: the map holds pointers into inc)
    fixes,            \* Store.fixes: incident type -> Resolution
    disk,             \* the persisted document (last successful save)
    nilMaps,          \* which of Store.incidents / Store.fixes is a nil map
    useAI,            \* Orchestrator.useAI
    ctxDone,          \* the context of main was cancelled
    mainpc,           \* main: position in the shutdown sequence
    demo,             \* runDemo: position and round (pc "off" without -demo)
    samples,          \* history: the Healthy flag of every sample taken
    emits,            \* history: index of the sample at which each event was sent
    faults,           \* history: number of faults triggered
    saveFailures,     \* history: number of saves that failed
    hist              \* history of the incident in progress (see HistInit)

vars == <<svc, mpc, previousHealthy, mloc, incidentChannel, inc, opc, cur, oloc,
          storeIncidents, fixes, disk, useAI, ctxDone, mainpc, demo,
          samples, emits, faults, saveFailures, nilMaps, hist>>

monVars   == <<mpc, previousHealthy, mloc, samples, emits>>
mainVars  == <<useAI, ctxDone, mainpc, demo>>
storeVars == <<storeIncidents, fixes, disk, saveFailures, nilMaps>>
orchVars  == <<opc, cur, oloc>>

\* ------------------------------------------------------------ TargetService

\* NewTargetService followed by the Start of main
NewTargetService ==
    [isRunning |-> TRUE, isHealthy |-> TRUE,
     database_url |-> "localhost:5432", timeout |-> "30s", max_retries |-> "3",
     errorLogs |-> <<>>]

\* addLog: append, keep the newest maxLogs entries
addLog(s, message) ==
    LET l == Append(s.errorLogs, message)
    IN  [s EXCEPT !.errorLogs = IF Len(l) > maxLogs THEN Tail(l) ELSE l]

\* Start: error when already running, else running and healthy
StartErr(s) == s.isRunning
Start(s) == IF s.isRunning THEN s
            ELSE [s EXCEPT !.isRunning = TRUE, !.isHealthy = TRUE]

\* Stop: error when not running, else neither running nor healthy
Stop(s) == IF ~s.isRunning THEN s
           ELSE [s EXCEPT !.isRunning = FALSE, !.isHealthy = FALSE]

SetConfig(s, key, value) ==
    CASE key = "database_url" -> [s EXCEPT !.database_url = value]
      [] key = "timeout"      -> [s EXCEPT !.timeout = value]
      [] key = "max_retries"  -> [s EXCEPT !.max_retries = value]

\* the faults /trigger-incident accepts, by the canonical query value
FaultKinds == {"crash", "config", "resource", "dependency"}

\* handleTriggerIncident, the four accepted cases
handleTriggerIncident(s, kind) ==
    CASE kind = "crash" ->
           addLog([s EXCEPT !.isHealthy = FALSE], "Service crashed - simulated failure")
      [] kind = "config" ->
           addLog([s EXCEPT !.database_url = "invalid::url::format",
                            !.timeout = "not-a-number",
                            !.isHealthy = FALSE],
                  "Configuration corrupted - invalid values detected")
      [] kind = "resource" ->
           addLog([s EXCEPT !.isHealthy = FALSE],
                  "Resource exhaustion - port blocked or memory full")
      [] kind = "dependency" ->
           addLog([s EXCEPT !.database_url = "unreachable-host:9999",
                            !.isHealthy = FALSE],
                  "Database connection failed - unable to reach host")

\* ------------------------------------------------------- IncidentDetector

\* a probe whose request fails is taken as healthy
checkHealthFailureIsHealthy(s) ==
    IF ~s.isRunning
    THEN [Healthy |-> TRUE, Message |-> "Health check failed", StatusCode |-> 0]
    ELSE IF s.isHealthy
         THEN [Healthy |-> TRUE, Message |-> "Service operational", StatusCode |-> 200]
         ELSE [Healthy |-> FALSE, Message |-> "Service unhealthy", StatusCode |-> 503]

\* checkHealth: GET /health. The server answers only while it is running;
\* a failed request is an unhealthy sample with status code 0.
checkHealth(s) ==
    IF ~s.isRunning
    THEN [Healthy |-> FALSE, Message |-> "Health check failed", StatusCode |-> 0]
    ELSE IF s.isHealthy
         THEN [Healthy |-> TRUE, Message |-> "Service operational", StatusCode |-> 200]
         ELSE [Healthy |-> FALSE, Message |-> "Service unhealthy", StatusCode |-> 503]

\* The decoded answer of GET /status, as analyzeSymptoms looks at it:
\*   config       the answer has a "config" object
\*   database_url config["database_url"] when it is there and a string
\*   timeout      config["timeout"] when it is there and a string
\*   running      the "running" field when it is there and a boolean
\*   recent_logs  the strings of "recent_logs" (none when it is not a list)
\* fetchServiceStatus returns the empty map when the request fails.
EmptyStatus ==
    [config |-> FALSE, database_url |-> None, timeout |-> None, running |-> None,
     recent_logs |-> <<>>]

\* fetchServiceStatus against the target service (handleStatus)
fetchServiceStatus(s) ==
    IF ~s.isRunning THEN EmptyStatus
    ELSE [config |-> TRUE, database_url |-> Some(s.database_url),
          timeout |-> Some(s.timeout), running |-> Some(s.isRunning),
          recent_logs |-> s.errorLogs]

\* contains(str, "resource") || contains(str, "port blocked") || contains(str, "memory")
\* over the log messages of the model (the match is case-sensitive)
ResourceKeyword(message) ==
    message \in {"Resource exhaustion - port blocked or memory full",
                 "out of memory"}

\* a classification that looks at the logs before the configuration
analyzeSymptomsLogsFirst(health, status) ==
    LET base == <<health.StatusCode, health.Message>>
    IN  IF \E i \in 1..Len(status.recent_logs) : ResourceKeyword(status.recent_logs[i])
        THEN <<ResourceExhaustion, Append(base, "Resource exhaustion detected in logs")>>
        ELSE IF status.config /\ status.database_url \in {Some("invalid::url::format"), Some("")}
        THEN <<ConfigError, Append(base, "Invalid database URL configuration detected")>>
        ELSE IF status.config /\ status.database_url = Some("unreachable-host:9999")
        THEN <<DependencyFailure, Append(base, "Database host unreachable")>>
        ELSE IF status.config /\ status.timeout = Some("not-a-number")
        THEN <<ConfigError, Append(base, "Invalid timeout configuration detected")>>
        ELSE IF status.running = Some(FALSE)
        THEN <<ServiceDown, Append(base, "Service process not running")>>
        ELSE <<ServiceDown, Append(base, "Service health check failing")>>

\* a classification that accepts only the marker of a corrupted URL
analyzeSymptomsNoEmptyUrl(health, status) ==
    LET base == <<health.StatusCode, health.Message>>
    IN  IF status.config /\ status.database_url = Some("invalid::url::format")
        THEN <<ConfigError, Append(base, "Invalid database URL configuration detected")>>
        ELSE IF status.config /\ status.database_url = Some("unreachable-host:9999")
        THEN <<DependencyFailure, Append(base, "Database host unreachable")>>
        ELSE IF status.config /\ status.timeout = Some("not-a-number")
        THEN <<ConfigError, Append(base, "Invalid timeout configuration detected")>>
        ELSE IF status.running = Some(FALSE)
        THEN <<ServiceDown, Append(base, "Service process not running")>>
        ELSE IF \E i \in 1..Len(status.recent_logs) : ResourceKeyword(status.recent_logs[i])
        THEN <<ResourceExhaustion, Append(base, "Resource exhaustion detected in logs")>>
        ELSE <<ServiceDown, Append(base, "Service health check failing")>>

\* a classification that takes the class from the fix cache when it has one
analyzeSymptomsFromCache(health, status) ==
    LET base == <<health.StatusCode, health.Message>>
    IN  IF DOMAIN fixes # {}
        THEN <<CHOOSE t \in DOMAIN fixes : TRUE, Append(base, "Service health check failing")>>
        ELSE IF status.config /\ status.database_url \in {Some("invalid::url::format"), Some("")}
        THEN <<ConfigError, Append(base, "Invalid database URL configuration detected")>>
        ELSE IF status.config /\ status.database_url = Some("unreachable-host:9999")
        THEN <<DependencyFailure, Append(base, "Database host unreachable")>>
        ELSE <<ServiceDown, Append(base, "Service health check failing")>>

\* analyzeSymptoms: the incident type and the symptom list
analyzeSymptoms(health, status) ==
    LET base == <<health.StatusCode, health.Message>>
    IN  IF status.config /\ status.database_url \in {Some("invalid::url::format"), Some("")}
        THEN <<ConfigError, Append(base, "Invalid database URL configuration detected")>>
        ELSE IF status.config /\ status.database_url = Some("unreachable-host:9999")
        THEN <<DependencyFailure, Append(base, "Database host unreachable")>>
        ELSE IF status.config /\ status.timeout = Some("not-a-number")
        THEN <<ConfigError, Append(base, "Invalid timeout configuration detected")>>
        ELSE IF status.running = Some(FALSE)
        THEN <<ServiceDown, Append(base, "Service process not running")>>
        ELSE IF \E i \in 1..Len(status.recent_logs) : ResourceKeyword(status.recent_logs[i])
        THEN <<ResourceExhaustion, Append(base, "Resource exhaustion detected in logs")>>
        ELSE <<ServiceDown, Append(base, "Service health check failing")>>

\* fetchLogs: the recent_logs of a second status request, empty when it fails
fetchLogs(s) == fetchServiceStatus(s).recent_logs

\* createIncident: the new incident object
createIncident(type, symptoms, logs) ==
    [Type |-> type, Status |-> StatusDetected, ResolvedAt |-> FALSE,
     Symptoms |-> symptoms, Logs |-> logs, Diagnosis |-> "",
     Resolution |-> None, UsedCachedFix |-> FALSE]

\* the locals of a monitorLoop iteration before they are assigned
MlocInit ==
    [health |-> [Healthy |-> TRUE, Message |-> "", StatusCode |-> 0],
     status |-> EmptyStatus,
     type |-> "", symptoms |-> <<>>, incident |-> 0]

\* a monitor that raises no incident while the executor has the service down
IsEdgeUnlessRemediating(prev, healthy) ==
    prev /\ ~healthy /\ ~(opc \in {"start", "restartCheck"} /\ ~svc.isRunning)

\* a monitor that reports the recovery instead of the failure
IsEdgeFalling(prev, healthy) == ~prev /\ healthy

\* a monitor that reports every unhealthy sample (level-triggered)
IsEdgeLevel(prev, healthy) == ~healthy

\* the rising-edge test of monitorLoop
IsEdge(prev, healthy) == prev /\ ~healthy

\* the process is alive until main returns
Alive == mainpc # "exited"

\* case <-ticker.C: take a sample; on a rising edge go on to create the incident
MonTick ==
    /\ Alive /\ mpc = "select"
    /\ Len(samples) < MaxSamples
    /\ LET health == checkHealth(svc)
       IN  /\ samples' = Append(samples, health.Healthy)
           /\ IF IsEdge(previousHealthy, health.Healthy)
              THEN /\ mpc' = "analyze"
                   /\ mloc' = [MlocInit EXCEPT !.health = health]
                   /\ UNCHANGED previousHealthy
              ELSE /\ previousHealthy' = health.Healthy
                   /\ UNCHANGED <<mpc, mloc>>
    /\ hist' = [hist EXCEPT !.failedProbes =
                                IF checkHealth(svc).StatusCode = 0 THEN @ + 1 ELSE 0,
                            !.sampledStatus =
                                IF IsEdge(previousHealthy, checkHealth(svc).Healthy)
                                THEN fetchServiceStatus(svc) ELSE @]
    /\ UNCHANGED <<svc, incidentChannel, inc, orchVars, storeVars, mainVars, emits,
                   faults>>

\* createIncident -> analyzeSymptoms (first status request)
MonAnalyze ==
    /\ Alive /\ mpc = "analyze"
    /\ LET r == analyzeSymptoms(mloc.health, fetchServiceStatus(svc))
       IN  mloc' = [mloc EXCEPT !.type = r[1], !.symptoms = r[2]]
    /\ mpc' = "fetchLogs"
    /\ hist' = [hist EXCEPT !.analyzedStatus = fetchServiceStatus(svc)]
    /\ UNCHANGED <<svc, previousHealthy, samples, emits, incidentChannel, inc,
                   orchVars, storeVars, mainVars, faults>>

\* a monitor that takes the logs from the status it classified
MonFetchLogsOneSnapshot ==
    /\ Alive /\ mpc = "fetchLogs"
    /\ inc' = Append(inc, createIncident(mloc.type, mloc.symptoms,
                                         hist.analyzedStatus.recent_logs))
    /\ mloc' = [MlocInit EXCEPT !.health = mloc.health, !.incident = Len(inc) + 1]
    /\ mpc' = "send"
    /\ hist' = [hist EXCEPT !.sampledStatus = EmptyStatus,
                            !.analyzedStatus = EmptyStatus]
    /\ UNCHANGED <<svc, previousHealthy, samples, emits, incidentChannel, orchVars,
                   storeVars, mainVars, faults>>

\* createIncident -> fetchLogs (second status request), then the object is built
MonFetchLogs ==
    /\ Alive /\ mpc = "fetchLogs"
    /\ inc' = Append(inc, createIncident(mloc.type, mloc.symptoms, fetchLogs(svc)))
    /\ mloc' = [MlocInit EXCEPT !.health = mloc.health, !.incident = Len(inc) + 1]
    /\ mpc' = "send"
    /\ hist' = [hist EXCEPT !.sampledStatus = EmptyStatus,
                            !.analyzedStatus = EmptyStatus]
    /\ UNCHANGED <<svc, previousHealthy, samples, emits, incidentChannel, orchVars,
                   storeVars, mainVars, faults>>

\* a monitor that drops the event when the channel is full
MonSendOrDrop ==
    /\ Alive /\ mpc = "send"
    /\ incidentChannel' = IF Len(incidentChannel) < ChanCap
                          THEN Append(incidentChannel, mloc.incident)
                          ELSE incidentChannel
    /\ emits' = Append(emits, Len(samples))
    /\ previousHealthy' = mloc.health.Healthy
    /\ hist' = [hist EXCEPT !.busySent = IF cur # 0 THEN @ \cup {mloc.incident} ELSE @]
    /\ mloc' = MlocInit
    /\ mpc' = "select"
    /\ UNCHANGED <<svc, samples, inc, orchVars, storeVars, mainVars, faults>>

\* id.incidentChannel <- incident: blocks while the channel is full
MonSend ==
    /\ Alive /\ mpc = "send"
    /\ Len(incidentChannel) < ChanCap
    /\ incidentChannel' = Append(incidentChannel, mloc.incident)
    /\ emits' = Append(emits, Len(samples))
    /\ previousHealthy' = mloc.health.Healthy
    /\ hist' = [hist EXCEPT !.busySent = IF cur # 0 THEN @ \cup {mloc.incident} ELSE @]
    /\ mloc' = MlocInit
    /\ mpc' = "select"
    /\ UNCHANGED <<svc, samples, inc, orchVars, storeVars, mainVars, faults>>

\* case <-ctx.Done(): return
MonCtxDone ==
    /\ Alive /\ mpc = "select" /\ ctxDone
    /\ mpc' = "exited"
    /\ UNCHANGED <<svc, previousHealthy, mloc, samples, emits, incidentChannel, inc,
                   orchVars, storeVars, mainVars, faults, hist>>

\* a client of the service triggers a fault (served only while the server runs)
Trigger ==
    /\ Alive /\ svc.isRunning
    /\ faults < MaxFaults
    /\ \E kind \in FaultKinds : svc' = handleTriggerIncident(svc, kind)
    /\ faults' = faults + 1
    /\ UNCHANGED <<monVars, incidentChannel, inc, orchVars, storeVars, mainVars, hist>>

\* ---------------------------------------------------------------- Analyzer

\* The step texts that occur in plans, and for each the substrings that
\* applyConfigStep looks for in its lower-cased text.
Keywords(step) ==
    CASE step = "Stop the service if it's still partially running" -> {}
      [] step = "Restart the service process"          -> {"restart"}
      [] step = "Verify health check passes"           -> {}
      [] step = "Restore database_url to 'localhost:5432'"
                         -> {"database_url", "localhost:5432", "restore", "3"}
      [] step = "Reset timeout to '30s'"               -> {"timeout", "30s", "reset", "3"}
      [] step = "Restart service to apply changes"     -> {"restart"}
      [] step = "Update database_url to valid host"    -> {"database_url"}
      [] step = "Verify database is running"           -> {}
      [] step = "Restart service to reconnect"         -> {"restart"}
      [] step = "Stop the service"                     -> {}
      [] step = "Clear any blocked resources"          -> {}
      [] step = "Restart service on clean port"        -> {"restart"}
      [] step = "Attempt service restart"              -> {"restart"}
      [] step = "Monitor logs for errors"              -> {}
      [] step = "Set timeout to 30s"                   -> {"timeout", "30s", "3"}
      [] step = "Check the firewall rules"             -> {}
      [] step = "Apply the patch below"                -> {}

Contains(step, substr) == substr \in Keywords(step)

\* a fallback that leaves an incident of no known type to an operator
GetQuickAnalysisManualDefault(type) ==
    [Diagnosis |-> IF type \in IncidentType THEN "Service needs a restart"
                   ELSE "Unknown incident type",
     FixType |-> IF type \in IncidentType THEN "restart" ELSE "manual",
     FixSteps |-> <<"Attempt service restart", "Monitor logs for errors">>,
     Code |-> ""]

\* GetQuickAnalysis: the rule-based plan of an incident type
GetQuickAnalysis(type) ==
    CASE type = ServiceDown ->
           [Diagnosis |-> "Service process has crashed or stopped responding",
            FixType |-> "restart",
            FixSteps |-> <<"Stop the service if it's still partially running",
                           "Restart the service process",
                           "Verify health check passes">>,
            Code |-> ""]
      [] type = ConfigError ->
           [Diagnosis |-> "Configuration file contains invalid values",
            FixType |-> "config",
            FixSteps |-> <<"Restore database_url to 'localhost:5432'",
                           "Reset timeout to '30s'",
                           "Restart service to apply changes">>,
            Code |-> ""]
      [] type = DependencyFailure ->
           [Diagnosis |-> "External dependency (database) is unreachable",
            FixType |-> "config",
            FixSteps |-> <<"Update database_url to valid host",
                           "Verify database is running",
                           "Restart service to reconnect">>,
            Code |-> ""]
      [] type = ResourceExhaustion ->
           [Diagnosis |-> "System resources exhausted (port blocked or memory full)",
            FixType |-> "restart",
            FixSteps |-> <<"Stop the service",
                           "Clear any blocked resources",
                           "Restart service on clean port">>,
            Code |-> ""]
      [] OTHER ->
           [Diagnosis |-> "Unknown incident type",
            FixType |-> "restart",
            FixSteps |-> <<"Attempt service restart", "Monitor logs for errors">>,
            Code |-> ""]

\* What the OpenAI call can produce: a transport error, no choice, a text that
\* is not JSON, or a JSON object with these fields (a missing field decodes
\* to the zero value).
AIOutcomes ==
    { [kind |-> "api_error", Diagnosis |-> "", FixType |-> "", FixSteps |-> <<>>, Code |-> ""],
      [kind |-> "not_json",  Diagnosis |-> "", FixType |-> "", FixSteps |-> <<>>, Code |-> ""],
      [kind |-> "json", Diagnosis |-> "The process hangs", FixType |-> "restart",
       FixSteps |-> <<"Restart the service process">>, Code |-> ""],
      [kind |-> "json", Diagnosis |-> "The timeout is wrong", FixType |-> "config",
       FixSteps |-> <<"Set timeout to 30s", "Check the firewall rules">>, Code |-> ""],
      [kind |-> "json", Diagnosis |-> "The handler has a bug", FixType |-> "code",
       FixSteps |-> <<"Apply the patch below">>, Code |-> "func fix() {}"],
      [kind |-> "json", Diagnosis |-> "", FixType |-> "restart",
       FixSteps |-> <<"Restart the service process">>, Code |-> ""],
      [kind |-> "json", Diagnosis |-> "The process hangs", FixType |-> "",
       FixSteps |-> <<"Restart the service process">>, Code |-> ""],
      [kind |-> "json", Diagnosis |-> "The process hangs", FixType |-> "reboot",
       FixSteps |-> <<"Restart the service process">>, Code |-> ""],
      [kind |-> "json", Diagnosis |-> "The process hangs", FixType |-> "restart",
       FixSteps |-> <<>>, Code |-> ""] }

validFixTypes == {"restart", "config", "code"}

\* a validation that accepts any non-empty fix type
parseResponseErrAnyFixType(out) ==
    \/ out.kind # "json"
    \/ out.Diagnosis = ""
    \/ out.FixType = ""
    \/ Len(out.FixSteps) = 0

\* parseResponse: TRUE when the response is rejected
parseResponseErr(out) ==
    \/ out.kind # "json"
    \/ out.Diagnosis = ""
    \/ out.FixType = ""
    \/ out.FixType \notin validFixTypes
    \/ Len(out.FixSteps) = 0

\* the models.AIResponse of an outcome
AIResponseOf(out) ==
    [Diagnosis |-> out.Diagnosis, FixType |-> out.FixType,
     FixSteps |-> out.FixSteps, Code |-> out.Code]

\* AnalyzeIncident: TRUE when it returns an error
AnalyzeIncidentErr(out) == out.kind = "api_error" \/ parseResponseErr(out)

\* processIncident, lines 184-195: the plan that is executed
ChoosePlan(ai, out, type) ==
    IF ai
    THEN IF AnalyzeIncidentErr(out) THEN GetQuickAnalysis(type) ELSE AIResponseOf(out)
    ELSE GetQuickAnalysis(type)

\* ---------------------------------------------------------------- Executor

\* an executor that restores database_url at every step that names it
applyConfigStepAnyDatabaseUrl(s, step) ==
    IF Contains(step, "database_url")
    THEN SetConfig(s, "database_url", "localhost:5432")
    ELSE IF /\ Contains(step, "timeout")
            /\ (Contains(step, "30s") \/ Contains(step, "restore") \/ Contains(step, "reset"))
    THEN SetConfig(s, "timeout", "30s")
    ELSE IF /\ Contains(step, "retries")
            /\ (Contains(step, "3") \/ Contains(step, "restore"))
    THEN SetConfig(s, "max_retries", "3")
    ELSE s

\* applyConfigStep: the service after one step of a config plan
applyConfigStep(s, step) ==
    IF /\ Contains(step, "database_url")
       /\ (Contains(step, "localhost:5432") \/ Contains(step, "restore"))
    THEN SetConfig(s, "database_url", "localhost:5432")
    ELSE IF /\ Contains(step, "timeout")
            /\ (Contains(step, "30s") \/ Contains(step, "restore") \/ Contains(step, "reset"))
    THEN SetConfig(s, "timeout", "30s")
    ELSE IF /\ Contains(step, "retries")
            /\ (Contains(step, "3") \/ Contains(step, "restore"))
    THEN SetConfig(s, "max_retries", "3")
    ELSE s

\* an executor that restarts the service when it does not know the fix type
DispatchDefaultsToRestart(fixType, steps) ==
    CASE fixType = "config"  ->
           [pc |-> IF Len(steps) > 0 THEN "configStep" ELSE "stop", viaRestart |-> TRUE]
      [] fixType = "code"    -> [pc |-> "stop", viaRestart |-> TRUE]
      [] OTHER               -> [pc |-> "stop", viaRestart |-> FALSE]

\* an executor that refuses code plans
DispatchRefusesCode(fixType, steps) ==
    CASE fixType = "restart" -> [pc |-> "stop", viaRestart |-> FALSE]
      [] fixType = "config"  ->
           [pc |-> IF Len(steps) > 0 THEN "configStep" ELSE "stop", viaRestart |-> TRUE]
      [] OTHER               -> [pc |-> "unknown", viaRestart |-> FALSE]

\* the switch of ExecuteFix and ApplyCachedFix: where the executor starts.
\* "restart" runs executeRestart; "config" runs the steps and then Restart;
\* "code" runs Restart; any other fix type is an error.
Dispatch(fixType, steps) ==
    CASE fixType = "restart" -> [pc |-> "stop", viaRestart |-> FALSE]
      [] fixType = "config"  ->
           [pc |-> IF Len(steps) > 0 THEN "configStep" ELSE "stop", viaRestart |-> TRUE]
      [] fixType = "code"    -> [pc |-> "stop", viaRestart |-> TRUE]
      [] OTHER               -> [pc |-> "unknown", viaRestart |-> FALSE]

\* an executor that leaves the success mark to the verification
NewResolutionUnmarked(aiResponse, success) ==
    [FixType |-> aiResponse.FixType, Description |-> aiResponse.Diagnosis,
     Steps |-> aiResponse.FixSteps, Code |-> aiResponse.Code, Success |-> FALSE]

\* ExecuteFix: the Resolution built from the plan
NewResolution(aiResponse, success) ==
    [FixType |-> aiResponse.FixType, Description |-> aiResponse.Diagnosis,
     Steps |-> aiResponse.FixSteps, Code |-> aiResponse.Code, Success |-> success]

\* ------------------------------------------------------------------- Store

\* a store that keeps the first fix it learned for a type
LearnFixKeepFirst(f, incident) ==
    IF /\ incident.Status = StatusResolved
       /\ incident.Resolution # None
       /\ incident.Resolution[1].Success
       /\ incident.Type \notin DOMAIN f
    THEN [t \in DOMAIN f \cup {incident.Type} |->
             IF t = incident.Type THEN incident.Resolution[1] ELSE f[t]]
    ELSE f

\* a store that never learns a fix
LearnFixNever(f, incident) == f

\* a store that learns the Resolution of any stored incident, whatever its status
LearnFixAnyStatus(f, incident) ==
    IF incident.Resolution # None /\ incident.Resolution[1].Success
    THEN [t \in DOMAIN f \cup {incident.Type} |->
             IF t = incident.Type THEN incident.Resolution[1] ELSE f[t]]
    ELSE f

\* StoreIncident: the fix map after the incident is stored
LearnFix(f, incident) ==
    IF /\ incident.Status = StatusResolved
       /\ incident.Resolution # None
       /\ incident.Resolution[1].Success
    THEN [t \in DOMAIN f \cup {incident.Type} |->
             IF t = incident.Type THEN incident.Resolution[1] ELSE f[t]]
    ELSE f

\* GetLearnedFix
HasLearnedFix(f, type) == type \in DOMAIN f

\* encoding/json on models.Resolution: "code" has omitempty, so the key is
\* left out when Code is "" (a key that is left out is None here)
encodeResolution(r) ==
    [fix_type |-> r.FixType, description |-> r.Description, steps |-> r.Steps,
     code |-> IF r.Code = "" THEN None ELSE Some(r.Code),
     success |-> r.Success]

\* decoding into a zero models.Resolution: a missing key leaves the zero value
decodeResolution(j) ==
    [FixType |-> j.fix_type, Description |-> j.description, Steps |-> j.steps,
     Code |-> IF j.code = None THEN "" ELSE j.code[1],
     Success |-> j.success]

\* a models.Incident whose "resolved_at" key is never written
encodeIncidentNoResolvedAt(i) ==
    [type |-> i.Type, status |-> i.Status,
     resolved_at |-> None,
     symptoms |-> i.Symptoms, logs |-> i.Logs,
     diagnosis |-> IF i.Diagnosis = "" THEN None ELSE Some(i.Diagnosis),
     resolution |-> IF i.Resolution = None THEN None
                    ELSE Some(encodeResolution(i.Resolution[1])),
     used_cached_fix |-> i.UsedCachedFix]

\* encoding/json on models.Incident: "resolved_at", "diagnosis" and
\* "resolution" have omitempty (nil pointer, empty string, nil pointer)
encodeIncident(i) ==
    [type |-> i.Type, status |-> i.Status,
     resolved_at |-> IF i.ResolvedAt THEN Some(TRUE) ELSE None,
     symptoms |-> i.Symptoms, logs |-> i.Logs,
     diagnosis |-> IF i.Diagnosis = "" THEN None ELSE Some(i.Diagnosis),
     resolution |-> IF i.Resolution = None THEN None
                    ELSE Some(encodeResolution(i.Resolution[1])),
     used_cached_fix |-> i.UsedCachedFix]

\* decoding into a zero models.Incident
decodeIncident(j) ==
    [Type |-> j.type, Status |-> j.status,
     ResolvedAt |-> j.resolved_at # None,
     Symptoms |-> j.symptoms, Logs |-> j.logs,
     Diagnosis |-> IF j.diagnosis = None THEN "" ELSE j.diagnosis[1],
     Resolution |-> IF j.resolution = None THEN None
                    ELSE Some(decodeResolution(j.resolution[1])),
     UsedCachedFix |-> j.used_cached_fix]

\* the document save encodes: the incident map and the fix map
StoredData(heap, ids, f) ==
    [state |-> "ok",
     incidents |-> [id \in ids |-> encodeIncident(heap[id])],
     fixes |-> [t \in DOMAIN f |-> encodeResolution(f[t])]]

NoDocument == [state |-> "absent", incidents |-> <<>>, fixes |-> <<>>]

\* the names of the two maps of the store
MapNames == {"incidents", "fixes"}

\* encoding/json writes a nil map as null: the document then has the field
\* "missing", the set of the mappings that are null or not there
WithNil(doc, n) ==
    IF n = {} THEN doc
    ELSE [state |-> doc.state, incidents |-> doc.incidents, fixes |-> doc.fixes,
          missing |-> n]

\* Load assigns data.Incidents and data.Fixes to the store as decoded: a
\* mapping that is null or missing in the document leaves a nil map
NilMaps(doc) ==
    IF doc.state = "ok" /\ "missing" \in DOMAIN doc THEN doc.missing ELSE {}

\* save: os.Create may fail (the document is left as it was), the encoder may
\* fail (the document was truncated by then), or the document is written
SaveOutcomes == {"ok", "create_failed", "encode_failed"}
save(outcome, old, data) ==
    CASE outcome = "ok"            -> data
      [] outcome = "create_failed" -> old
      [] outcome = "encode_failed" -> [state |-> "corrupt", incidents |-> <<>>, fixes |-> <<>>]

\* ------------------------------------------------------------ Orchestrator

\* the locals of processIncident before they are assigned
OlocInit ==
    [path |-> "none",          \* "cached": ApplyCachedFix, "diag": ExecuteFix
     cachedFix |-> None,       \* the Resolution GetLearnedFix returned
     aiResponse |-> None,      \* the plan ExecuteFix was given
     steps |-> <<>>,           \* the steps the executor runs
     next |-> 1,               \* executeConfigFix: index of the next step
     viaRestart |-> FALSE,     \* the executor is inside TargetService.Restart
     i |-> 0]                  \* verifyResolution: the loop counter

\* History of the run of processIncident in progress (or the last one that
\* returned), plus three sets kept for the whole behaviour.
HistInit ==
    [started |-> {},           \* ids handleIncidents has received (in any run)
     loaded |-> 0,             \* number of records NewStore loaded at startup
     failedProbes |-> 0,       \* number of monitor probes in a row, up to the last
                               \* one, whose request failed (in any run)
     delivered |-> <<>>,       \* ids handleIncidents has received in this run, in order
     inFlight |-> {},          \* ids whose processIncident has not returned
     verified |-> {},          \* ids for which a verifyResolution run passed (in any run)
     id |-> 0,                 \* the incident this history is about
     cacheHit |-> "none",      \* "hit" / "miss": what GetLearnedFix answered
     cachedFailed |-> FALSE,   \* the cached fix failed (apply or verification)
     cachedVerifyFailed |-> FALSE, \* verifyResolution failed after the cached fix
     execFailed |-> "none",    \* "cached" / "diag": the path on which the executor
                               \* last returned an error
     aiCalled |-> FALSE,       \* AnalyzeIncident was called
     aiOut |-> None,           \* what the call produced (until the next step)
     remediated |-> FALSE,     \* the executor restarted the service
     resolution |-> None,      \* the Resolution ExecuteFix last returned
     stopErr |-> FALSE,        \* the executor's last Stop returned an error
     stoppedHealthy |-> FALSE, \* the service was running and healthy when the
                               \* executor last stopped it
     stopCalled |-> FALSE,     \* the executor called Stop for this incident
     busySent |-> {},          \* ids sent on the channel while processIncident
                               \* was running for an earlier incident
     healthyAtDequeue |-> FALSE, \* the service was running and healthy when
                               \* handleIncidents received this incident
     sampledStatus |-> EmptyStatus,  \* what /status would have answered at the
                               \* probe that raised the incident being created
     analyzedStatus |-> EmptyStatus, \* what it answered to analyzeSymptoms
     faultsAtDequeue |-> 0,    \* the number of faults triggered by then
     urlAtDequeue |-> "",      \* the database_url of the service then
     probes |-> <<>>,          \* results of the probes of the last verification
     verdict |-> "none",       \* "pass" / "fail": what verifyResolution returned
     verdictPath |-> "none"]   \* the path on which it returned

\* a handler that starts processIncident without waiting for the previous one
ReadyToReceiveAlways == opc \in {"select", "lookup", "analyzing", "analyze",
                                 "configStep", "stop", "start", "verify"}

\* handleIncidents receives from the channel only between two processIncident calls
ReadyToReceive == opc = "select"

\* processIncident returns: back to the select of handleIncidents
Return ==
    /\ opc' = "select"
    /\ cur' = 0
    /\ oloc' = OlocInit

\* Store.save of the given maps, with any outcome
Save(h, ids, f) ==
    \E o \in SaveOutcomes :
        /\ o # "ok" => saveFailures < MaxSaveFailures
        /\ disk' = save(o, disk, WithNil(StoredData(h, ids, f), nilMaps))
        /\ saveFailures' = IF o = "ok" THEN saveFailures ELSE saveFailures + 1

\* StoreIncident writes to a nil map (a Go panic: "assignment to entry in nil
\* map"): s.incidents[incident.ID] when incidents is nil, s.fixes[type] when
\* fixes is nil and the incident is one a fix is learned from
StoreFaults(h, id) ==
    \/ "incidents" \in nilMaps
    \/ "fixes" \in nilMaps /\ LearnFix(fixes, h[id]) # fixes

\* Store.StoreIncident(incident) on the heap h (the incident was already
\* changed). When it panics, what it wrote before stays and nothing is saved.
StoreIncident(h, id) ==
    IF "incidents" \in nilMaps
    THEN UNCHANGED storeVars
    ELSE IF StoreFaults(h, id)
    THEN /\ storeIncidents' = storeIncidents \cup {id}
         /\ UNCHANGED <<fixes, disk, saveFailures, nilMaps>>
    ELSE /\ storeIncidents' = storeIncidents \cup {id}
         /\ fixes' = LearnFix(fixes, h[id])
         /\ nilMaps' = nilMaps
         /\ Save(h, storeIncidents \cup {id}, LearnFix(fixes, h[id]))

\* Store.UpdateIncidentStatus(id, status) after incident.Status = status:
\* the object in the map is the same object, so only ResolvedAt and save remain
UpdateIncidentStatus(id, status) ==
    IF id \notin storeIncidents
    THEN /\ inc' = [inc EXCEPT ![id].Status = status]
         /\ UNCHANGED storeVars
    ELSE /\ inc' = [inc EXCEPT ![id].Status = status,
                               ![id].ResolvedAt = (status = StatusResolved) \/ @]
         /\ Save(inc', storeIncidents, fixes)
         /\ UNCHANGED <<storeIncidents, fixes, nilMaps>>

\* a processIncident that returns when the first StoreIncident fails
OrchDequeueGivesUp ==
    /\ Alive /\ ReadyToReceive
    /\ incidentChannel # <<>>
    /\ LET id == Head(incidentChannel)
       IN  /\ incidentChannel' = Tail(incidentChannel)
           /\ cur' = id
           /\ StoreIncident(inc, id)
           /\ hist' = [HistInit EXCEPT !.started = hist.started \cup {id},
                                       !.failedProbes = hist.failedProbes,
                                       !.inFlight = hist.inFlight \cup {id},
                                       !.verified = hist.verified,
                                       !.loaded = hist.loaded,
                                       !.delivered = Append(hist.delivered, id),
                                       !.busySent = hist.busySent,
                                       !.sampledStatus = hist.sampledStatus,
                                       !.analyzedStatus = hist.analyzedStatus,
                                       !.id = id]
    /\ opc' = IF saveFailures' # saveFailures THEN "select" ELSE "lookup"
    /\ oloc' = OlocInit
    /\ UNCHANGED <<svc, inc, monVars, mainVars, faults>>

\* case incident := <-incidentChan, then StoreIncident (lines 132, 147)
\* a handler that does not process an incident whose service is healthy again
OrchDequeueSkipsHealthy ==
    /\ Alive /\ ReadyToReceive
    /\ incidentChannel # <<>>
    /\ LET id == Head(incidentChannel)
       IN  /\ incidentChannel' = Tail(incidentChannel)
           /\ StoreIncident(inc, id)
           /\ hist' = [HistInit EXCEPT !.started = hist.started \cup {id},
                                       !.failedProbes = hist.failedProbes,
                                       !.inFlight = IF svc.isRunning /\ svc.isHealthy
                                                    THEN hist.inFlight
                                                    ELSE hist.inFlight \cup {id},
                                       !.verified = hist.verified,
                                       !.loaded = hist.loaded,
                                       !.delivered = Append(hist.delivered, id),
                                       !.busySent = hist.busySent,
                                       !.healthyAtDequeue =
                                           svc.isRunning /\ svc.isHealthy,
                                       !.faultsAtDequeue = faults,
                                       !.sampledStatus = hist.sampledStatus,
                                       !.analyzedStatus = hist.analyzedStatus,
                                       !.urlAtDequeue = svc.database_url,
                                       !.id = id]
           /\ cur' = IF svc.isRunning /\ svc.isHealthy THEN 0 ELSE id
    /\ opc' = IF svc.isRunning /\ svc.isHealthy THEN "select" ELSE "lookup"
    /\ oloc' = OlocInit
    /\ UNCHANGED <<svc, inc, monVars, mainVars, faults>>

OrchDequeue ==
    /\ Alive /\ ReadyToReceive
    /\ incidentChannel # <<>>
    /\ LET id == Head(incidentChannel)
       IN  /\ incidentChannel' = Tail(incidentChannel)
           /\ cur' = id
           /\ StoreIncident(inc, id)
           /\ hist' = [HistInit EXCEPT !.started = hist.started \cup {id},
                                       !.failedProbes = hist.failedProbes,
                                       !.inFlight = hist.inFlight \cup {id},
                                       !.verified = hist.verified,
                                       !.loaded = hist.loaded,
                                       !.delivered = Append(hist.delivered, id),
                                       !.busySent = hist.busySent,
                                       !.healthyAtDequeue =
                                           svc.isRunning /\ svc.isHealthy,
                                       !.faultsAtDequeue = faults,
                                       !.sampledStatus = hist.sampledStatus,
                                       !.analyzedStatus = hist.analyzedStatus,
                                       !.urlAtDequeue = svc.database_url,
                                       !.id = id]
    /\ opc' = IF StoreFaults(inc, Head(incidentChannel)) THEN "panicked" ELSE "lookup"
    /\ mainpc' = IF StoreFaults(inc, Head(incidentChannel)) THEN "exited" ELSE mainpc
    /\ oloc' = OlocInit
    /\ UNCHANGED <<svc, inc, monVars, useAI, ctxDone, demo, faults>>

\* a cached path that does not mark the incident
MarkCachedNot(h, id) == h

\* a cached path that also moves the incident to Fixing before the fix is applied
MarkCachedFixing(h, id) ==
    [h EXCEPT ![id].UsedCachedFix = TRUE, ![id].Status = StatusFixing]

\* incident.UsedCachedFix = true (line 154)
MarkCached(h, id) == [h EXCEPT ![id].UsedCachedFix = TRUE]

\* an Orchestrator that, on a cache hit, looks the fix up again and again
LookupNextWaits(hit, d) ==
    IF hit THEN "lookup" ELSE "analyzing"

\* an Orchestrator that goes to the analysis whatever the cache answered
LookupNextIgnoresCache(hit, d) == "analyzing"

\* where processIncident goes after GetLearnedFix: into the executor on a hit
\* (to the analysis if ApplyCachedFix fails at once), to the analysis on a miss
LookupNext(hit, d) ==
    IF hit /\ d.pc # "unknown" THEN d.pc ELSE "analyzing"

\* GetLearnedFix; on a hit UsedCachedFix = true and ApplyCachedFix starts (152-156)
OrchLookup ==
    /\ Alive /\ opc = "lookup"
    /\ LET type == inc[cur].Type
       IN  IF HasLearnedFix(fixes, type)
           THEN LET d == Dispatch(fixes[type].FixType, fixes[type].Steps)
                IN  /\ inc' = MarkCached(inc, cur)
                    /\ oloc' = [OlocInit EXCEPT !.path = "cached",
                                                !.cachedFix = Some(fixes[type]),
                                                !.steps = fixes[type].Steps,
                                                !.viaRestart = d.viaRestart]
                    /\ opc' = LookupNext(TRUE, d)
                    /\ hist' = [hist EXCEPT !.cacheHit = "hit",
                                            !.cachedFailed = (d.pc = "unknown"),
                                            !.execFailed =
                                                IF d.pc = "unknown" THEN "cached" ELSE @]
           ELSE /\ opc' = LookupNext(FALSE, Dispatch("", <<>>))
                /\ hist' = [hist EXCEPT !.cacheHit = "miss"]
                /\ UNCHANGED <<inc, oloc>>
    /\ UNCHANGED <<svc, incidentChannel, cur, storeVars, monVars, mainVars, faults>>

\* incident.Status = StatusAnalyzing; UpdateIncidentStatus (178-179)
OrchAnalyzing ==
    /\ Alive /\ opc = "analyzing"
    /\ UpdateIncidentStatus(cur, StatusAnalyzing)
    /\ opc' = "analyze"
    /\ hist' = [hist EXCEPT !.aiOut = None]
    /\ UNCHANGED <<svc, incidentChannel, cur, oloc, monVars, mainVars, faults>>

\* a fall-back that opens a second incident record for the diagnosis path
FallBackWithNewRecord(h) ==
    /\ inc' = Append(inc, [inc[cur] EXCEPT !.Status = StatusDetected])
    /\ cur' = Len(inc) + 1
    /\ storeIncidents' = storeIncidents \cup {Len(inc) + 1}
    /\ opc' = "analyzing"
    /\ oloc' = OlocInit
    /\ hist' = [h EXCEPT !.cachedFailed = TRUE, !.aiOut = None]
    /\ UNCHANGED <<fixes, disk, saveFailures, nilMaps>>

\* The cached fix failed (ApplyCachedFix returned an error, or verification
\* failed after it): processIncident goes on to line 178 with the same
\* incident. h is the history up to here.
FallBackToAnalysis(h) ==
    /\ opc' = "analyzing"
    /\ oloc' = OlocInit
    /\ hist' = [h EXCEPT !.cachedFailed = TRUE, !.aiOut = None]
    /\ UNCHANGED <<inc, cur, storeVars>>

\* an Orchestrator that runs the plan once more when ExecuteFix fails
ExecFailedRetry ==
    IF oloc.path = "cached"
    THEN FallBackToAnalysis([hist EXCEPT !.execFailed = "cached"])
    ELSE /\ opc' = "stop"
         /\ hist' = [hist EXCEPT !.execFailed = "diag", !.aiOut = None]
         /\ UNCHANGED <<inc, cur, oloc, storeVars>>

\* the executor returned an error: after ApplyCachedFix processIncident goes
\* on to the analysis (lines 156-158), after ExecuteFix the incident is Failed,
\* stored, and processIncident returns (lines 207-211)
ExecFailed ==
    IF oloc.path = "cached"
    THEN FallBackToAnalysis([hist EXCEPT !.execFailed = "cached"])
    ELSE /\ inc' = [inc EXCEPT ![cur].Status = StatusFailed]
         /\ StoreIncident(inc', cur)
         /\ hist' = [hist EXCEPT !.inFlight = @ \ {cur}, !.execFailed = "diag",
                                 !.resolution =
                                     Some(NewResolution(oloc.aiResponse[1], FALSE)),
                                 !.aiOut = None]
         /\ Return

\* lines 184-206: the plan is obtained, the incident goes to Fixing and
\* ExecuteFix starts on the plan
OrchAnalyze ==
    /\ Alive /\ opc = "analyze"
    /\ \E out \in AIOutcomes :
         LET plan == ChoosePlan(useAI, out, inc[cur].Type)
             d    == Dispatch(plan.FixType, plan.FixSteps)
             h1   == [inc EXCEPT ![cur].Diagnosis = plan.Diagnosis,
                                 ![cur].Status = StatusFixing]
         IN  /\ useAI \/ out.kind = "api_error"    \* without AI no call is made
             /\ IF d.pc = "unknown"
                THEN /\ inc' = [h1 EXCEPT ![cur].Status = StatusFailed]
                     /\ StoreIncident(inc', cur)
                     /\ hist' = [hist EXCEPT !.inFlight = @ \ {cur},
                                             !.execFailed = "diag",
                                             !.resolution =
                                                 Some(NewResolution(plan, FALSE)),
                                             !.aiCalled = useAI,
                                             !.aiOut = IF useAI THEN Some(out) ELSE None]
                     /\ Return
                ELSE /\ inc' = h1
                     /\ IF cur \in storeIncidents
                        THEN Save(h1, storeIncidents, fixes)
                        ELSE UNCHANGED <<disk, saveFailures>>
                     /\ UNCHANGED <<storeIncidents, fixes, nilMaps, cur>>
                     /\ oloc' = [OlocInit EXCEPT !.path = "diag",
                                                 !.aiResponse = Some(plan),
                                                 !.steps = plan.FixSteps,
                                                 !.viaRestart = d.viaRestart]
                     /\ opc' = d.pc
                     /\ hist' = [hist EXCEPT !.aiCalled = useAI,
                                             !.aiOut = IF useAI THEN Some(out) ELSE None]
    /\ UNCHANGED <<svc, incidentChannel, monVars, mainVars, faults>>

\* an executeConfigFix that gives up at a step it cannot interpret
OrchConfigStepStrict ==
    /\ Alive /\ opc = "configStep"
    /\ IF /\ applyConfigStep(svc, oloc.steps[oloc.next]) = svc
          /\ ~Contains(oloc.steps[oloc.next], "restart")
       THEN UNCHANGED svc /\ ExecFailed
       ELSE /\ svc' = applyConfigStep(svc, oloc.steps[oloc.next])
            /\ oloc' = [oloc EXCEPT !.next = @ + 1]
            /\ opc' = IF oloc.next = Len(oloc.steps) THEN "stop" ELSE "configStep"
            /\ hist' = [hist EXCEPT !.aiOut = None]
            /\ UNCHANGED <<inc, cur, storeVars>>
    /\ UNCHANGED <<incidentChannel, monVars, mainVars, faults>>

\* executeConfigFix: one applyConfigStep
OrchConfigStep ==
    /\ Alive /\ opc = "configStep"
    /\ svc' = applyConfigStep(svc, oloc.steps[oloc.next])
    /\ oloc' = [oloc EXCEPT !.next = @ + 1]
    /\ opc' = IF oloc.next = Len(oloc.steps) THEN "stop" ELSE "configStep"
    /\ hist' = [hist EXCEPT !.aiOut = None]
    /\ UNCHANGED <<incidentChannel, inc, cur, storeVars, monVars, mainVars, faults>>

\* Stop: TRUE when it returns an error (the service was not running)
StopErr(s) == ~s.isRunning

\* an executeRestart that treats an error of Stop the way Restart does
OrchStopChecksError ==
    /\ Alive /\ opc = "stop"
    /\ svc' = Stop(svc)
    /\ opc' = IF StopErr(svc) THEN "restartCheck" ELSE "start"
    /\ hist' = [hist EXCEPT !.aiOut = None, !.stopErr = StopErr(svc),
                            !.stopCalled = TRUE,
                            !.stoppedHealthy = svc.isRunning /\ svc.isHealthy]
    /\ UNCHANGED <<inc, cur, oloc, storeVars>>
    /\ UNCHANGED <<incidentChannel, monVars, mainVars, faults>>

\* targetService.Stop() of executeRestart (its error is ignored) or of
\* Restart (which, after an error of Stop, reads isRunning once more)
OrchStop ==
    /\ Alive /\ opc = "stop"
    /\ svc' = Stop(svc)
    /\ opc' = IF oloc.viaRestart /\ StopErr(svc) THEN "restartCheck" ELSE "start"
    /\ hist' = [hist EXCEPT !.aiOut = None, !.stopErr = StopErr(svc),
                            !.stopCalled = TRUE,
                            !.stoppedHealthy = svc.isRunning /\ svc.isHealthy]
    /\ UNCHANGED <<inc, cur, oloc, storeVars>>
    /\ UNCHANGED <<incidentChannel, monVars, mainVars, faults>>

\* Restart: err != nil && ts.isRunning. The flag is read without the lock,
\* after Stop has returned: it is true when the service was started meanwhile,
\* and Restart then returns the error of Stop.
OrchRestartCheck ==
    /\ Alive /\ opc = "restartCheck"
    /\ IF svc.isRunning
       THEN ExecFailed
       ELSE /\ opc' = "start"
            /\ UNCHANGED <<inc, cur, oloc, storeVars, hist>>
    /\ UNCHANGED <<svc, incidentChannel, monVars, mainVars, faults>>

\* a processIncident that does not attach the Resolution before verification
OrchStartAttachesNothing ==
    /\ Alive /\ opc = "start"
    /\ IF StartErr(svc)
       THEN /\ UNCHANGED svc
            /\ ExecFailed
       ELSE /\ svc' = Start(svc)
            /\ inc' = inc
            /\ opc' = "verify"
            /\ oloc' = [oloc EXCEPT !.i = 0]
            /\ hist' = [hist EXCEPT !.remediated = TRUE, !.probes = <<>>,
                                    !.resolution =
                                        IF oloc.path = "diag"
                                        THEN Some(NewResolution(oloc.aiResponse[1], TRUE))
                                        ELSE @,
                                    !.verdict = "none", !.verdictPath = "none"]
            /\ UNCHANGED <<cur, storeVars>>
    /\ UNCHANGED <<incidentChannel, monVars, mainVars, faults>>

\* targetService.Start(); on success the executor returns nil and
\* verifyResolution begins (ExecuteFix: the Resolution is attached first)
OrchStart ==
    /\ Alive /\ opc = "start"
    /\ IF StartErr(svc)
       THEN /\ UNCHANGED svc
            /\ ExecFailed
       ELSE /\ svc' = Start(svc)
            /\ inc' = IF oloc.path = "diag"
                      THEN [inc EXCEPT ![cur].Resolution =
                                          Some(NewResolution(oloc.aiResponse[1], TRUE))]
                      ELSE inc
            /\ opc' = "verify"
            /\ oloc' = [oloc EXCEPT !.i = 0]
            /\ hist' = [hist EXCEPT !.remediated = TRUE, !.probes = <<>>,
                                    !.resolution =
                                        IF oloc.path = "diag"
                                        THEN Some(NewResolution(oloc.aiResponse[1], TRUE))
                                        ELSE @,
                                    !.verdict = "none", !.verdictPath = "none"]
            /\ UNCHANGED <<cur, storeVars>>
    /\ UNCHANGED <<incidentChannel, monVars, mainVars, faults>>

\* a loop that does not return at a failed probe
VerifyContinuesAfterFailure(i, healthy) == i + 1 < NumProbes

\* verifyResolution: the loop goes on after probe i (counted from 0)
VerifyContinues(i, healthy) == healthy /\ i + 1 < NumProbes
\* a loop that reports success once it has run all its probes
VerifyPassesAtEnd(i, healthy) == i + 1 >= NumProbes

\* verifyResolution returns true after probe i
VerifyPasses(i, healthy) == healthy /\ i + 1 >= NumProbes

\* the heap after processIncident has marked the incident Resolved (lines
\* 161-164 on the cached path, 219-221 on the other)
Resolved(h, id, l) ==
    [h EXCEPT ![id].Status = StatusResolved,
              ![id].ResolvedAt = TRUE,
              ![id].Resolution = IF l.path = "cached" THEN l.cachedFix ELSE @]

\* one probe of verifyResolution and, when the loop ends with it, the rest of
\* processIncident (lines 161-173 on the cached path, 218-236 on the other)
OrchProbe ==
    /\ Alive /\ opc = "verify"
    /\ LET healthy == checkHealth(svc).Healthy
           probes  == Append(hist.probes, healthy)
       IN  IF VerifyContinues(oloc.i, healthy)
           THEN /\ oloc' = [oloc EXCEPT !.i = @ + 1]
                /\ hist' = [hist EXCEPT !.probes = probes]
                /\ UNCHANGED <<opc, cur, inc, storeVars>>
           ELSE IF VerifyPasses(oloc.i, healthy)
           THEN /\ inc' = Resolved(inc, cur, oloc)
                /\ StoreIncident(inc', cur)
                /\ IF StoreFaults(Resolved(inc, cur, oloc), cur)
                   THEN /\ hist' = [hist EXCEPT !.probes = probes, !.verdict = "pass",
                                                !.verdictPath = oloc.path,
                                                !.verified = @ \cup {cur}]
                        /\ opc' = "panicked"
                        /\ UNCHANGED <<cur, oloc>>
                   ELSE /\ hist' = [hist EXCEPT !.probes = probes, !.verdict = "pass",
                                                !.verdictPath = oloc.path,
                                                !.verified = @ \cup {cur},
                                                !.inFlight = @ \ {cur}]
                        /\ Return
           ELSE IF oloc.path = "cached"
           THEN FallBackToAnalysis([hist EXCEPT !.probes = probes, !.verdict = "fail",
                                                !.verdictPath = "cached",
                                                !.cachedVerifyFailed = TRUE])
           ELSE /\ inc' = [inc EXCEPT ![cur].Status = StatusFailed]
                /\ StoreIncident(inc', cur)
                /\ hist' = [hist EXCEPT !.probes = probes, !.verdict = "fail",
                                        !.verdictPath = "diag",
                                        !.inFlight = @ \ {cur}]
                /\ Return
    /\ mainpc' = IF opc' = "panicked" THEN "exited" ELSE mainpc
    /\ UNCHANGED <<svc, incidentChannel, monVars, useAI, ctxDone, demo, faults>>

\* handleIncidents: case <-ctx.Done(): return
OrchCtxDone ==
    /\ Alive /\ opc = "select" /\ ctxDone
    /\ opc' = "exited"
    /\ UNCHANGED <<svc, incidentChannel, inc, cur, oloc, storeVars, monVars, mainVars,
                   faults, hist>>

\* ----------------------------------------------------------------- runDemo

\* the incidents runDemo triggers, in order
DemoKinds == <<"crash", "config", "crash", "dependency">>

DemoOff == [pc |-> "off", round |-> 0]
DemoOn  == [pc |-> "stop", round |-> 1]

\* targetService.Stop() of a round (its error is dropped)
DemoStop ==
    /\ Alive /\ demo.pc = "stop"
    /\ svc' = Stop(svc)
    /\ demo' = [demo EXCEPT !.pc = "start"]
    /\ UNCHANGED <<incidentChannel, inc, orchVars, storeVars, monVars, useAI, ctxDone,
                   mainpc, faults, hist>>

\* targetService.Start() of a round (its error is dropped)
DemoStart ==
    /\ Alive /\ demo.pc = "start"
    /\ svc' = Start(svc)
    /\ demo' = [demo EXCEPT !.pc = "trigger"]
    /\ UNCHANGED <<incidentChannel, inc, orchVars, storeVars, monVars, useAI, ctxDone,
                   mainpc, faults, hist>>

\* GET /trigger-incident?type=... of a round (it fails when the server is
\* down), then the wait; the loop ends after the last incident
DemoTrigger ==
    /\ Alive /\ demo.pc = "trigger"
    /\ svc' = IF svc.isRunning THEN handleTriggerIncident(svc, DemoKinds[demo.round])
              ELSE svc
    /\ demo' = IF demo.round < Len(DemoKinds) /\ demo.round < MaxDemoRounds
               THEN [pc |-> "stop", round |-> demo.round + 1]
               ELSE [demo EXCEPT !.pc = "done"]
    /\ UNCHANGED <<incidentChannel, inc, orchVars, storeVars, monVars, useAI, ctxDone,
                   mainpc, faults, hist>>

\* -------------------------------------------------------------------- main

\* the interrupt arrives: cancel() (line 104)
MainCancel ==
    /\ mainpc = "wait"
    /\ ctxDone' = TRUE
    /\ mainpc' = "detectorStop"
    /\ UNCHANGED <<svc, incidentChannel, inc, orchVars, storeVars, monVars, useAI,
                   demo, faults, hist>>

\* detector.Stop(): the send on the unbuffered stopChannel completes when
\* monitorLoop takes case <-id.stopChannel and returns
MonStopped ==
    /\ mainpc = "detectorStop" /\ mpc = "select"
    /\ mpc' = "exited"
    /\ mainpc' = "serviceStop"
    /\ UNCHANGED <<svc, previousHealthy, mloc, samples, emits, incidentChannel, inc,
                   orchVars, storeVars, useAI, ctxDone, demo, faults, hist>>

\* targetService.Stop() (line 106)
MainServiceStop ==
    /\ mainpc = "serviceStop"
    /\ svc' = Stop(svc)
    /\ mainpc' = "summary"
    /\ UNCHANGED <<incidentChannel, inc, orchVars, storeVars, monVars, useAI, ctxDone,
                   demo, faults, hist>>

\* store.PrintSummary() and the return of main: the process ends
MainExit ==
    /\ mainpc = "summary"
    /\ mainpc' = "exited"
    /\ UNCHANGED <<svc, incidentChannel, inc, orchVars, storeVars, monVars, useAI,
                   ctxDone, demo, faults, hist>>

\* ----------------------------------------------------------- specification

\* The persisted document NewStore finds at startup: none, or the document an
\* earlier run left after it resolved one SERVICE_DOWN incident (a crash) with
\* the rule-based plan.
EarlierIncident ==
    [Type |-> ServiceDown, Status |-> StatusResolved, ResolvedAt |-> TRUE,
     Symptoms |-> <<503, "Service unhealthy", "Service health check failing">>,
     Logs |-> <<"Service crashed - simulated failure">>,
     Diagnosis |-> GetQuickAnalysis(ServiceDown).Diagnosis,
     Resolution |-> Some(NewResolution(GetQuickAnalysis(ServiceDown), TRUE)),
     UsedCachedFix |-> FALSE]

EarlierDocument ==
    StoredData(<<EarlierIncident>>, {1}, LearnFix(<<>>, EarlierIncident))

StartupDocuments == {NoDocument, EarlierDocument}

\* Store.Load: the maps of the store after NewStore (a failed load leaves the
\* empty maps NewStore made)
Load(doc) ==
    IF doc.state = "ok"
    THEN [incidents |-> [id \in DOMAIN doc.incidents |->
                             decodeIncident(doc.incidents[id])],
          fixes |-> [t \in DOMAIN doc.fixes |-> decodeResolution(doc.fixes[t])]]
    ELSE [incidents |-> <<>>, fixes |-> <<>>]

\* main up to "System ready": the service runs, the store was built from the
\* document found, the monitor and the incident handler have been started
Boot ==
    /\ svc = NewTargetService
    /\ mpc = "select"
    /\ previousHealthy = TRUE
    /\ mloc = MlocInit
    /\ incidentChannel = <<>>
    /\ disk \in StartupDocuments
    /\ inc = Load(disk).incidents
    /\ storeIncidents = DOMAIN Load(disk).incidents
    /\ fixes = Load(disk).fixes
    /\ nilMaps = NilMaps(disk)
    /\ opc = "select"
    /\ cur = 0
    /\ oloc = OlocInit
    /\ useAI \in BOOLEAN
    /\ ctxDone = FALSE
    /\ mainpc = "wait"
    /\ samples = <<>>
    /\ emits = <<>>
    /\ faults = 0
    /\ saveFailures = 0
    /\ hist = [HistInit EXCEPT !.started = DOMAIN Load(disk).incidents,
                               !.verified = DOMAIN Load(disk).incidents,
                               !.loaded = Len(Load(disk).incidents)]

\* started without -demo
Init == Boot /\ demo = DemoOff

\* started with -demo: go runDemo(targetService)
InitDemo == Boot /\ demo = DemoOn

\* the system in operation, before any interrupt
Next ==
    \/ MonTick
    \/ MonAnalyze
    \/ MonFetchLogs
    \/ MonSend
    \/ Trigger
    \/ OrchDequeue
    \/ OrchLookup
    \/ OrchAnalyzing
    \/ OrchAnalyze
    \/ OrchConfigStep
    \/ OrchStop
    \/ OrchStart
    \/ OrchProbe

Spec == Init /\ [][Next]_vars

\* the system with the interrupt and the shutdown sequence of main
NextShutdown ==
    \/ Next
    \/ OrchRestartCheck
    \/ MainCancel
    \/ MonCtxDone
    \/ MonStopped
    \/ OrchCtxDone
    \/ MainServiceStop
    \/ MainExit

SpecShutdown == Init /\ [][NextShutdown]_vars

\* A later moment of a run that started from EarlierDocument and in which
\* every incident so far went the same way: the cached restart brought the
\* service up, a crash was triggered and sampled before the last probe, the
\* fall-back plan restarted the service again, one more crash was triggered
\* and sampled, and the incident ended Failed. Each incident processed thus
\* left two events behind; after ChanCap incidents the channel is full and
\* the monitor holds one more event, blocked in the send. No further fault is
\* triggered and no further save fails from here on.
BacklogSymptoms == <<503, "Service unhealthy", "Service health check failing">>

BacklogLogs(n) == [j \in 1..n |-> "Service crashed - simulated failure"]

\* the k-th incident the monitor created (k-1 crashes had been logged before
\* its edge, 2k-2 for the events that followed a restart of the fall-back)
BacklogIncident(k) ==
    LET created == createIncident(ServiceDown, BacklogSymptoms, BacklogLogs(k))
    IN  IF k <= ChanCap
        THEN [created EXCEPT
                 !.Status = StatusFailed,
                 !.UsedCachedFix = TRUE,
                 !.Diagnosis = GetQuickAnalysis(ServiceDown).Diagnosis,
                 !.Resolution = Some(NewResolution(GetQuickAnalysis(ServiceDown), TRUE))]
        ELSE created

BacklogHeap ==
    [id \in 1..(2 * ChanCap + 2) |->
        IF id = 1 THEN EarlierIncident ELSE BacklogIncident(id - 1)]

BacklogService ==
    [NewTargetService EXCEPT !.isHealthy = FALSE,
                             !.errorLogs = BacklogLogs(2 * ChanCap + 1)]

InitBacklog ==
    /\ svc = BacklogService
    /\ mpc = "send"
    /\ previousHealthy = TRUE
    /\ mloc = [MlocInit EXCEPT !.health = checkHealth(BacklogService),
                               !.incident = 2 * ChanCap + 2]
    /\ incidentChannel = [k \in 1..ChanCap |-> ChanCap + 1 + k]
    /\ inc = BacklogHeap
    /\ storeIncidents = 1..(ChanCap + 1)
    /\ nilMaps = {}
    /\ fixes = Load(EarlierDocument).fixes
    /\ disk = StoredData(BacklogHeap, 1..(ChanCap + 1), Load(EarlierDocument).fixes)
    /\ opc = "select"
    /\ cur = 0
    /\ oloc = OlocInit
    /\ useAI = FALSE
    /\ ctxDone = FALSE
    /\ mainpc = "wait"
    /\ demo = DemoOff
    /\ samples = <<>>
    /\ emits = [k \in 1..(2 * ChanCap) |-> 0]
    /\ faults = MaxFaults
    /\ saveFailures = MaxSaveFailures
    /\ hist = [HistInit EXCEPT !.started = 1..(ChanCap + 1), !.verified = {1},
                               !.loaded = 1,
                               !.delivered = [k \in 1..ChanCap |-> k + 1]]

\* normal operation from the full channel: the monitor, and the Orchestrator
\* on the cached path (with the service repaired, no cached fix fails)
NextBacklog ==
    \/ MonTick
    \/ MonAnalyze
    \/ MonFetchLogs
    \/ MonSend
    \/ OrchDequeue
    \/ OrchLookup
    \/ OrchStop
    \/ OrchStart
    \/ OrchProbe

SpecBacklog == InitBacklog /\ [][NextBacklog]_vars

\* the interrupt and the shutdown sequence from the full channel
NextBacklogShutdown ==
    \/ NextBacklog
    \/ OrchAnalyzing
    \/ OrchAnalyze
    \/ MainCancel
    \/ MonCtxDone
    \/ MonStopped
    \/ OrchCtxDone
    \/ MainServiceStop
    \/ MainExit

SpecBacklogShutdown == InitBacklog /\ [][NextBacklogShutdown]_vars

\* the system started with -demo, before any interrupt: runDemo is the only
\* client that triggers faults
NextDemo ==
    \/ MonTick
    \/ MonAnalyze
    \/ MonFetchLogs
    \/ MonSend
    \/ OrchDequeue
    \/ OrchLookup
    \/ OrchAnalyzing
    \/ OrchAnalyze
    \/ OrchConfigStep
    \/ OrchStop
    \/ OrchRestartCheck
    \/ OrchStart
    \/ OrchProbe
    \/ DemoStop
    \/ DemoStart
    \/ DemoTrigger

SpecDemo == InitDemo /\ [][NextDemo]_vars

\* Classification on its own: createIncident is run twice on one health
\* sample and one answer of GET /status, drawn from these sets; between the
\* two runs the state of the monitor and the fix cache may change.
UnhealthySamples ==
    { [Healthy |-> FALSE, Message |-> "Service unhealthy", StatusCode |-> 503],
      [Healthy |-> FALSE, Message |-> "Health check failed", StatusCode |-> 0] }

SnapshotUrls ==
    {None, Some(""), Some("invalid::url::format"), Some("unreachable-host:9999"),
     Some("localhost:5432"), Some("not a url")}

SnapshotTimeouts == {None, Some("30s"), Some("not-a-number"), Some("soon")}

SnapshotRunning == {None, Some(TRUE), Some(FALSE)}

SnapshotLogs ==
    { <<>>,
      <<"Service crashed - simulated failure">>,
      <<"Resource exhaustion - port blocked or memory full">>,
      <<"Service crashed - simulated failure", "out of memory">> }

Snapshots ==
    { [config |-> c, database_url |-> u, timeout |-> t, running |-> r, recent_logs |-> l] :
        c \in BOOLEAN, u \in SnapshotUrls, t \in SnapshotTimeouts,
        r \in SnapshotRunning, l \in SnapshotLogs }

\* the answers with fields of "config" but no "config" object do not exist
WellFormed(st) == st.config \/ (st.database_url = None /\ st.timeout = None)

InitClassify ==
    /\ svc = NewTargetService
    /\ mpc = "classify"
    /\ previousHealthy = TRUE
    /\ mloc \in { [MlocInit EXCEPT !.health = h, !.status = st] :
                     h \in UnhealthySamples, st \in {x \in Snapshots : WellFormed(x)} }
    /\ incidentChannel = <<>>
    /\ disk \in StartupDocuments
    /\ inc = Load(disk).incidents
    /\ storeIncidents = DOMAIN Load(disk).incidents
    /\ fixes = Load(disk).fixes
    /\ nilMaps = NilMaps(disk)
    /\ opc = "select"
    /\ cur = 0
    /\ oloc = OlocInit
    /\ useAI = FALSE
    /\ ctxDone = FALSE
    /\ mainpc = "wait"
    /\ demo = DemoOff
    /\ samples = <<>>
    /\ emits = <<>>
    /\ faults = 0
    /\ saveFailures = 0
    /\ hist = [HistInit EXCEPT !.started = DOMAIN Load(disk).incidents,
                               !.verified = DOMAIN Load(disk).incidents,
                               !.loaded = Len(Load(disk).incidents)]

\* one run of createIncident on the sample and the answer drawn
Classify ==
    /\ mpc = "classify"
    /\ LET r == analyzeSymptoms(mloc.health, mloc.status)
       IN  inc' = Append(inc, createIncident(r[1], r[2], mloc.status.recent_logs))
    /\ mpc' = IF Len(inc) = hist.loaded THEN "classify" ELSE "classified"
    /\ previousHealthy' \in BOOLEAN
    /\ fixes' \in {<<>>, Load(EarlierDocument).fixes}
    /\ UNCHANGED <<svc, mloc, samples, emits, incidentChannel, orchVars,
                   storeIncidents, disk, saveFailures, nilMaps, mainVars, faults, hist>>

SpecClassify == InitClassify /\ [][Classify]_vars

\* Startup: main before memory.NewStore. The persisted document is absent,
\* cannot be decoded (what a save leaves when its encoder fails), or is the
\* document of an earlier run.
CorruptDocument == save("encode_failed", NoDocument, NoDocument)

\* documents that decode without an error and lack the incidents mapping, the
\* fixes mapping or both (or hold null for them); the other mapping is that of
\* the document of an earlier run
NullDocuments ==
    { WithNil([state |-> "ok",
               incidents |-> IF "incidents" \in n THEN <<>>
                             ELSE EarlierDocument.incidents,
               fixes |-> IF "fixes" \in n THEN <<>> ELSE EarlierDocument.fixes], n) :
        n \in (SUBSET MapNames) \ {{}} }

InitStartup ==
    /\ svc = Stop(NewTargetService)
    /\ mpc = "off"
    /\ previousHealthy = TRUE
    /\ mloc = MlocInit
    /\ incidentChannel = <<>>
    /\ disk \in StartupDocuments \cup {CorruptDocument} \cup NullDocuments
    /\ inc = <<>>
    /\ storeIncidents = {}
    /\ fixes = <<>>
    /\ nilMaps = {}
    /\ opc = "off"
    /\ cur = 0
    /\ oloc = OlocInit
    /\ useAI \in BOOLEAN
    /\ ctxDone = FALSE
    /\ mainpc = "newStore"
    /\ demo = DemoOff
    /\ samples = <<>>
    /\ emits = <<>>
    /\ faults = 0
    /\ saveFailures = 0
    /\ hist = HistInit

\* a NewStore that ends the program when it cannot load the document
NewStoreStrict ==
    /\ mainpc = "newStore"
    /\ IF disk.state = "ok"
       THEN /\ inc' = Load(disk).incidents
            /\ storeIncidents' = DOMAIN Load(disk).incidents
            /\ fixes' = Load(disk).fixes
            /\ nilMaps' = NilMaps(disk)
            /\ hist' = [hist EXCEPT !.started = DOMAIN Load(disk).incidents,
                                    !.verified = DOMAIN Load(disk).incidents,
                                    !.loaded = Len(Load(disk).incidents)]
            /\ svc' = Start(svc)
            /\ mpc' = "select" /\ opc' = "select" /\ mainpc' = "wait"
       ELSE /\ mainpc' = "exited"
            /\ UNCHANGED <<inc, storeIncidents, fixes, nilMaps, hist, svc, mpc, opc>>
    /\ UNCHANGED <<previousHealthy, mloc, samples, emits, incidentChannel, cur, oloc,
                   disk, saveFailures, useAI, ctxDone, demo, faults>>

\* memory.NewStore (the maps are made, then Load is tried and its error only
\* logged) and the rest of main up to "System ready": the service is started,
\* the monitor and the incident handler are running
NewStore ==
    /\ mainpc = "newStore"
    /\ inc' = Load(disk).incidents
    /\ storeIncidents' = DOMAIN Load(disk).incidents
    /\ fixes' = Load(disk).fixes
    /\ nilMaps' = NilMaps(disk)
    /\ hist' = [hist EXCEPT !.started = DOMAIN Load(disk).incidents,
                            !.verified = DOMAIN Load(disk).incidents,
                            !.loaded = Len(Load(disk).incidents)]
    /\ svc' = Start(svc)
    /\ mpc' = "select" /\ opc' = "select" /\ mainpc' = "wait"
    /\ UNCHANGED <<previousHealthy, mloc, samples, emits, incidentChannel, cur, oloc,
                   disk, saveFailures, useAI, ctxDone, demo, faults>>

NextStartup ==
    \/ NewStore
    \/ MonTick
    \/ MonAnalyze
    \/ MonFetchLogs
    \/ MonSend
    \/ Trigger
    \/ OrchDequeue
    \/ OrchLookup
    \/ OrchAnalyzing
    \/ OrchAnalyze
    \/ OrchConfigStep
    \/ OrchStop
    \/ OrchStart
    \/ OrchProbe

SpecStartup == InitStartup /\ [][NextStartup]_vars

\* The executor on its own: processIncident is entered at the cache lookup,
\* at the analysis or at the call of ExecuteFix, for an incident of any type,
\* with any plan (or any cached Resolution a persisted document can hold) and
\* with the service in any of the states below; runDemo runs beside it.
ExecutorTypes == IncidentType \cup {"UNKNOWN"}

ExecutorPlans ==
    { AIResponseOf(out) : out \in {o \in AIOutcomes : o.kind = "json"} }
    \cup { GetQuickAnalysis(t) : t \in ExecutorTypes }
    \cup { [Diagnosis |-> "Nothing to change", FixType |-> "config",
            FixSteps |-> <<>>, Code |-> ""],
           [Diagnosis |-> "Configuration file contains invalid values",
            FixType |-> "config",
            FixSteps |-> <<"Restore database_url to 'localhost:5432'",
                           "Reset timeout to '30s'">>, Code |-> ""] }

ExecutorServices ==
    {NewTargetService, Stop(NewTargetService)}
    \cup { handleTriggerIncident(NewTargetService, k) : k \in FaultKinds }

InitExecutor ==
    /\ svc \in ExecutorServices
    /\ mpc = "select"
    /\ previousHealthy = FALSE
    /\ mloc = MlocInit
    /\ incidentChannel = <<>>
    /\ opc \in {"lookup", "analyze", "execute"}
    /\ inc \in { << [createIncident(t, <<503, "Service unhealthy">>, svc.errorLogs)
                       EXCEPT !.Status = IF opc = "lookup" THEN StatusDetected
                                         ELSE StatusAnalyzing] >> :
                 t \in ExecutorTypes }
    /\ storeIncidents = {1}
    /\ nilMaps = {}
    /\ fixes \in IF opc = "lookup"
                 THEN { [t \in {inc[1].Type} |-> NewResolution(p, TRUE)] :
                          p \in ExecutorPlans }
                 ELSE { <<>> }
    /\ disk = StoredData(inc, {1}, fixes)
    /\ cur = 1
    /\ oloc = OlocInit
    /\ useAI \in BOOLEAN
    /\ ctxDone = FALSE
    /\ mainpc = "wait"
    /\ demo = DemoOn
    /\ samples = <<>>
    /\ emits = <<>>
    /\ faults = MaxFaults
    /\ saveFailures = MaxSaveFailures
    /\ hist = [HistInit EXCEPT !.started = {1}, !.inFlight = {1}, !.id = 1,
                               !.delivered = <<1>>,
                               !.cacheHit = IF opc = "lookup" THEN "none" ELSE "miss"]

\* lines 198-211 with a plan that did not come from the analysis: the
\* incident goes to Fixing and ExecuteFix is called on the plan
ExecuteFix ==
    /\ Alive /\ opc = "execute"
    /\ \E plan \in ExecutorPlans :
         LET d  == Dispatch(plan.FixType, plan.FixSteps)
             h1 == [inc EXCEPT ![cur].Diagnosis = plan.Diagnosis,
                               ![cur].Status = StatusFixing]
         IN  IF d.pc = "unknown"
             THEN /\ inc' = [h1 EXCEPT ![cur].Status = StatusFailed]
                  /\ StoreIncident(inc', cur)
                  /\ oloc' = [OlocInit EXCEPT !.path = "diag",
                                              !.aiResponse = Some(plan)]
                  /\ opc' = "select"
                  /\ cur' = 0
                  /\ hist' = [hist EXCEPT !.inFlight = @ \ {cur},
                                          !.execFailed = "diag",
                                          !.resolution =
                                              Some(NewResolution(plan, FALSE))]
             ELSE /\ inc' = h1
                  /\ Save(h1, storeIncidents, fixes)
                  /\ UNCHANGED <<storeIncidents, fixes, nilMaps, cur, hist>>
                  /\ oloc' = [OlocInit EXCEPT !.path = "diag",
                                              !.aiResponse = Some(plan),
                                              !.steps = plan.FixSteps,
                                              !.viaRestart = d.viaRestart]
                  /\ opc' = d.pc
    /\ UNCHANGED <<svc, incidentChannel, monVars, mainVars, faults>>

NextExecutor ==
    \/ ExecuteFix
    \/ OrchLookup
    \/ OrchAnalyzing
    \/ OrchAnalyze
    \/ OrchConfigStep
    \/ OrchStop
    \/ OrchRestartCheck
    \/ OrchStart
    \/ OrchProbe
    \/ DemoStop
    \/ DemoStart
    \/ DemoTrigger

SpecExecutor == InitExecutor /\ [][NextExecutor]_vars

\* Scheduling: every goroutine that can take a step eventually takes it (the
\* Go scheduler is fair to runnable goroutines, the ticker keeps firing, and a
\* select with a ready case proceeds). The interrupt, the faults and runDemo
\* are the environment's and are not forced.
Fairness ==
    /\ WF_vars(MonTick) /\ WF_vars(MonAnalyze) /\ WF_vars(MonFetchLogs)
    /\ WF_vars(MonSend) /\ WF_vars(MonCtxDone) /\ WF_vars(MonStopped)
    /\ WF_vars(OrchDequeue) /\ WF_vars(OrchLookup) /\ WF_vars(OrchAnalyzing)
    /\ WF_vars(OrchAnalyze) /\ WF_vars(OrchConfigStep) /\ WF_vars(OrchStop)
    /\ WF_vars(OrchRestartCheck) /\ WF_vars(OrchStart) /\ WF_vars(OrchProbe)
    /\ WF_vars(OrchCtxDone)
    /\ WF_vars(MainServiceStop) /\ WF_vars(MainExit)

SpecShutdownFair == SpecShutdown /\ Fairness

SpecBacklogFair == SpecBacklog /\ Fairness

SpecBacklogShutdownFair == SpecBacklogShutdown /\ Fairness

SpecDemoFair == SpecDemo /\ Fairness

\* ------------------------------------------------------------- properties

\* the samples that begin a maximal run of unhealthy samples
RunStarts ==
    {i \in 1..Len(samples) : ~samples[i] /\ (i = 1 \/ samples[i - 1])}

\* the samples at which an event was sent
EmitSamples == {emits[k] : k \in 1..Len(emits)}

\* the sample whose event is being built or is waiting to be sent
PendingSamples ==
    IF mpc \in {"analyze", "fetchLogs", "send"} THEN {Len(samples)} ELSE {}

\* C1: the monitor sends exactly one event per maximal run of consecutive
\* unhealthy samples, at the sample that begins the run (the event of the
\* current sample may still be on its way to the channel), and none at any
\* other sample, in particular none at a sample that reports recovery.
C1_RisingEdgeOnly ==
    /\ Cardinality(EmitSamples) = Len(emits)
    /\ EmitSamples \cup PendingSamples = RunStarts
    /\ EmitSamples \cap PendingSamples = {}

\* two runs of unhealthy samples separated by a recovery, both reported
C1_Witness ==
    /\ samples = <<FALSE, TRUE, FALSE>>
    /\ emits = <<1, 3>>
    /\ mpc = "select"

\* C6: verifyResolution returns true only after NumProbes probes that were all
\* healthy; it returns false at the first unhealthy probe, which is then the
\* last probe run; while it runs, every probe so far was healthy.
C6_VerifyShortCircuits ==
    LET n == Len(hist.probes)
        AllHealthy(k) == \A j \in 1..k : hist.probes[j]
    IN  /\ n <= NumProbes
        /\ hist.verdict = "pass" => n = NumProbes /\ AllHealthy(n)
        /\ hist.verdict = "fail" => n >= 1 /\ ~hist.probes[n] /\ AllHealthy(n - 1)
        /\ hist.verdict = "none" => AllHealthy(n) /\ n < NumProbes

\* a verification that failed at its second probe: two probes were run
C6_Witness ==
    /\ hist.verdict = "fail"
    /\ hist.probes = <<TRUE, FALSE>>

\* C7: at most one incident is in processing: an incident received from the
\* channel is the only one whose processIncident has not returned.
C7_SingleInFlight ==
    /\ Cardinality(hist.inFlight) <= 1
    /\ hist.inFlight = IF cur = 0 THEN {} ELSE {cur}

\* an incident is being remediated while the next one waits in the channel
C7_Witness ==
    /\ opc \in {"stop", "start", "configStep"}
    /\ hist.inFlight = {cur}
    /\ incidentChannel # <<>>

\* an incident of the same type as id, other than id, that is Resolved with a
\* successful Resolution after a verification that passed
ResolvedEarlier(id) ==
    \E j \in storeIncidents \ {id} :
        /\ inc[j].Type = inc[id].Type
        /\ inc[j].Status = StatusResolved
        /\ inc[j].Resolution # None
        /\ inc[j].Resolution[1].Success
        /\ j \in hist.verified

\* the incident the history is about has been looked up in the cache
LookedUp == hist.id # 0 /\ hist.cacheHit # "none"

\* C2 as stated: after a verified-successful resolution of an incident of a
\* type, an incident of that type processed later has UsedCachedFix = true and
\* the Diagnosis Source is never called for it.
C2_Original ==
    (LookedUp /\ ResolvedEarlier(hist.id))
        => inc[hist.id].UsedCachedFix /\ ~hist.aiCalled

\* C2 as amended: after a verified-successful resolution of an incident of a
\* type, an incident of that type processed later has UsedCachedFix = true, and
\* the Diagnosis Source is called for it only if the cached fix failed (it
\* could not be applied, or verification failed after it).
C2_Amended ==
    (LookedUp /\ ResolvedEarlier(hist.id))
        => /\ inc[hist.id].UsedCachedFix
           /\ hist.aiCalled => hist.cachedFailed

\* a second incident of a type resolved from the cache without a call, with AI on
C2_Witness ==
    /\ useAI
    /\ LookedUp /\ ResolvedEarlier(hist.id)
    /\ inc[hist.id].Status = StatusResolved
    /\ inc[hist.id].UsedCachedFix
    /\ ~hist.aiCalled

\* every cache entry is a successful Resolution attached to a Resolved
\* incident of that type whose verification passed
C3_State ==
    \A t \in DOMAIN fixes :
        /\ fixes[t].Success
        /\ \E j \in storeIncidents :
              /\ inc[j].Type = t
              /\ inc[j].Status = StatusResolved
              /\ inc[j].Resolution = Some(fixes[t])
              /\ j \in hist.verified

\* the cache changes only when the incident in processing becomes Resolved
\* after a verification that passed, and only in the entry of its type
C3_Step ==
    fixes' # fixes =>
        /\ cur # 0
        /\ inc'[cur].Status = StatusResolved
        /\ cur \in hist'.verified
        /\ hist'.verdict = "pass"
        /\ DOMAIN fixes' = DOMAIN fixes \cup {inc[cur].Type}
        /\ inc'[cur].Resolution = Some(fixes'[inc[cur].Type])
        /\ \A t \in DOMAIN fixes : t # inc[cur].Type => fixes'[t] = fixes[t]

\* C3: every entry of the fix cache is a Resolution with Success = true that is
\* attached to a Resolved incident of the entry's type whose verification
\* passed; the cache is written only in the step that makes the incident in
\* processing Resolved, never for a Detected, Analyzing, Fixing or Failed one.
C3_CacheOnlyVerified == [](C3_State) /\ [][C3_Step]_vars

\* a fix learned in this run for a CONFIG_ERROR incident
C3_Witness ==
    /\ ConfigError \in DOMAIN fixes
    /\ \E j \in storeIncidents :
          /\ inc[j].Type = ConfigError
          /\ inc[j].Status = StatusResolved
          /\ inc[j].Resolution = Some(fixes[ConfigError])
          /\ ~inc[j].UsedCachedFix

\* the order of the statuses
Rank(status) ==
    CASE status = StatusDetected  -> 0
      [] status = StatusAnalyzing -> 1
      [] status = StatusFixing    -> 2
      [] status = StatusResolved  -> 3
      [] status = StatusFailed    -> 3

Terminal == {StatusResolved, StatusFailed}

C4_Step ==
    \A id \in DOMAIN inc' :
        IF id \in DOMAIN inc
        THEN /\ Rank(inc[id].Status) <= Rank(inc'[id].Status)
             /\ inc[id].Status \in Terminal => inc'[id].Status = inc[id].Status
        ELSE inc'[id].Status = StatusDetected

\* C4: an incident is created Detected; no step moves the status of an incident
\* backwards in Detected < Analyzing < Fixing < {Resolved, Failed}, and a
\* Resolved or Failed incident keeps its status.
C4_StatusMonotonic == [][C4_Step]_vars

\* an incident that went from Detected through Analyzing to Fixing after its
\* cached fix had failed
C4_Witness ==
    /\ cur # 0
    /\ hist.cachedFailed
    /\ inc[cur].Status = StatusFixing

AllProbesHealthy == [j \in 1..NumProbes |-> TRUE]

C5_Step ==
    /\ \A id \in DOMAIN inc :
          (inc[id].Status # StatusResolved /\ inc'[id].Status = StatusResolved)
              => /\ id = cur /\ hist'.id = id
                 /\ hist.remediated
                 /\ hist'.probes = AllProbesHealthy
    /\ (opc = "verify" /\ oloc.path = "diag" /\ ~checkHealth(svc).Healthy /\ opc' # opc)
          => /\ inc'[cur].Status = StatusFailed
             /\ opc' = "select"

\* C5: an incident becomes Resolved only in the step that ends a verification
\* whose probes were all healthy, run after the executor restarted the service
\* for that incident; on the diagnosis path an unhealthy probe ends the
\* incident in Failed.
C5_ResolvedOnlyVerified ==
    /\ [](\A id \in DOMAIN inc : inc[id].Status = StatusResolved => id \in hist.verified)
    /\ [][C5_Step]_vars

\* a verification on the diagnosis path that failed at its third probe
C5_Witness ==
    /\ hist.id # 0
    /\ hist.verdict = "fail" /\ hist.verdictPath = "diag"
    /\ hist.probes = <<TRUE, TRUE, FALSE>>
    /\ inc[hist.id].Status = StatusFailed

ExecutorPcs == {"configStep", "stop", "start"}

\* the store holds one record per incident received; after a failed cached
\* fix the incident in processing is still the one that was received, and it
\* is Analyzing and then Fixing
C8_State ==
    /\ storeIncidents = hist.started
    /\ Cardinality(storeIncidents) = Cardinality(hist.started)
    /\ disk.state = "ok" => DOMAIN disk.incidents \subseteq hist.started
    /\ (hist.cachedFailed /\ cur # 0) =>
          /\ cur = hist.id
          /\ opc = "analyze" => inc[cur].Status = StatusAnalyzing
          /\ opc \in ExecutorPcs \cup {"verify"} => inc[cur].Status = StatusFixing

\* the step in which the cached fix fails keeps the incident and adds no record
C8_Step ==
    (~hist.cachedFailed /\ hist'.cachedFailed) =>
        /\ cur' = cur /\ hist'.id = hist.id
        /\ opc' = "analyzing"
        /\ storeIncidents' = storeIncidents

\* C8: when a cached fix fails, the same incident (same id) goes on through
\* Analyzing and Fixing, and no record is added: the records of the store are
\* exactly the incidents the Orchestrator has received, one each.
C8_OneRecordPerIncident == [](C8_State) /\ [][C8_Step]_vars

\* an incident whose cached fix failed verification and which the diagnosis
\* path then resolved, with one record for each of the two incidents
C8_Witness ==
    /\ hist.id # 0 /\ hist.cachedFailed
    /\ hist.probes = AllProbesHealthy
    /\ inc[hist.id].Status = StatusResolved
    /\ Cardinality(storeIncidents) = 2

\* the flag of the incident in the history says whether the cache had an
\* entry; so does its persisted record once that record is Analyzing or later
C9_State ==
    hist.id # 0 =>
        /\ inc[hist.id].UsedCachedFix <=> hist.cacheHit = "hit"
        /\ (/\ disk.state = "ok"
            /\ hist.id \in DOMAIN disk.incidents
            /\ disk.incidents[hist.id].status # StatusDetected)
              => (disk.incidents[hist.id].used_cached_fix <=> hist.cacheHit = "hit")

C9_Step ==
    \A id \in DOMAIN inc : inc[id].UsedCachedFix => inc'[id].UsedCachedFix

\* C9: UsedCachedFix is never reset once set; an incident whose class had a
\* cache entry keeps UsedCachedFix = true in memory and in its persisted
\* record also when the diagnosis path produced the final fix, and an incident
\* whose class had no entry has UsedCachedFix = false.
C9_CachedFlagKept == [](C9_State) /\ [][C9_Step]_vars

\* the persisted final record of an incident fixed by the diagnosis path after
\* its cached fix failed carries the flag
C9_Witness ==
    /\ hist.id # 0 /\ hist.cachedFailed
    /\ disk.state = "ok"
    /\ hist.id \in DOMAIN disk.incidents
    /\ disk.incidents[hist.id].status = StatusResolved
    /\ disk.incidents[hist.id].used_cached_fix
    /\ hist.verdict = "pass" /\ hist.verdictPath = "diag"

\* what the Diagnosis Source contract rejects
Rejected(out) ==
    \/ out.kind \in {"api_error", "not_json"}
    \/ out.Diagnosis = ""
    \/ out.FixType \notin {"restart", "config", "code"}
    \/ out.FixSteps = <<>>

\* C10: when the Diagnosis Source call fails or its plan has an empty
\* diagnosis, a missing or unknown fix kind or no steps, the plan handed to
\* the executor is the rule-based plan of the incident's type, and the
\* incident is Fixing, not Failed.
C10_InvalidPlanReplaced ==
    (hist.aiOut # None /\ Rejected(hist.aiOut[1])) =>
        /\ cur # 0 /\ cur = hist.id
        /\ inc[cur].Status = StatusFixing
        /\ oloc.aiResponse = Some(GetQuickAnalysis(inc[cur].Type))
        /\ inc[cur].Diagnosis = GetQuickAnalysis(inc[cur].Type).Diagnosis
        /\ opc \in ExecutorPcs

\* a plan with the fix kind "reboot" was returned for a CONFIG_ERROR incident
C10_Witness ==
    /\ hist.aiOut # None
    /\ hist.aiOut[1].FixType = "reboot"
    /\ cur # 0
    /\ inc[cur].Type = ConfigError
    /\ oloc.aiResponse = Some(GetQuickAnalysis(ConfigError))
    /\ opc = "configStep"

\* the incident of the history is Failed in memory and in the store, its
\* record was written if no save has failed, and processIncident has returned
FailedAndReturned ==
    /\ inc[hist.id].Status = StatusFailed
    /\ hist.id \in storeIncidents
    /\ saveFailures = 0 =>
          /\ disk.state = "ok"
          /\ hist.id \in DOMAIN disk.incidents
          /\ disk.incidents[hist.id].status = StatusFailed
    /\ cur = 0 /\ opc = "select"
    /\ hist.inFlight = {}

\* C11 as stated: whenever the executor reports a failure for an incident, on
\* the cached path or on the diagnosis path, the incident is Failed and
\* persisted, processing of it has stopped and the Orchestrator is back at the
\* receive of the next event.
C11_Original == hist.execFailed # "none" => FailedAndReturned

\* C11 as amended: when ExecuteFix (the plan of the diagnosis path) reports a
\* failure, the incident is Failed and persisted, nothing more is applied for
\* it and the Orchestrator is back at the receive of the next event; when
\* ApplyCachedFix reports a failure, the incident is not marked Failed by
\* that: the same incident goes on to the diagnosis path.
C11_Amended ==
    /\ hist.execFailed = "diag" => FailedAndReturned
    /\ (hist.execFailed = "cached" /\ cur # 0) =>
          /\ cur = hist.id /\ hist.cachedFailed
          /\ inc[cur].Status \in {StatusDetected, StatusAnalyzing, StatusFixing}
          /\ opc \in {"analyzing", "analyze", "restartCheck", "verify"} \cup ExecutorPcs

\* ExecuteFix failed (Start found the service already running), the record
\* of the Failed incident is on disk and the next event waits in the channel
C11_Witness ==
    /\ hist.execFailed = "diag"
    /\ inc[hist.id].Status = StatusFailed
    /\ disk.state = "ok" /\ hist.id \in DOMAIN disk.incidents
    /\ disk.incidents[hist.id].status = StatusFailed
    /\ opc = "select" /\ incidentChannel # <<>>

\* C12 as stated: the Diagnosis Source is called for an incident only if the
\* cache had no entry for its type, or the cached fix was applied and
\* verifyResolution then failed.
C12_Original ==
    hist.aiCalled => (hist.cacheHit = "miss" \/ hist.cachedVerifyFailed)

\* ApplyCachedFix returned an error for the incident of the history
CachedApplyFailed ==
    hist.cacheHit = "hit" /\ hist.cachedFailed /\ ~hist.cachedVerifyFailed

\* C12 as amended: the Diagnosis Source is called for an incident only if the
\* cache had no entry for its type, or the cached fix was applied and
\* verifyResolution then failed, or the cached fix could not be applied
\* (ApplyCachedFix returned an error).
C12_Amended ==
    hist.aiCalled =>
        \/ hist.cacheHit = "miss"
        \/ hist.cachedVerifyFailed
        \/ CachedApplyFailed

\* the Diagnosis Source was called for an incident whose cached fix could not
\* be applied
C12_Witness ==
    /\ useAI /\ hist.aiCalled
    /\ CachedApplyFailed
    /\ hist.id # 0 /\ inc[hist.id].UsedCachedFix

\* C13: once the context is cancelled, the monitor goroutine returns, from
\* wherever it is: the select (the interval wait and the top of an iteration
\* are the same select), and the send into the incident channel.
C13_MonitorStops == ctxDone ~> (mpc = "exited")

\* the context is cancelled, the incident handler has returned, the channel is
\* full and the monitor is in the send: nothing will ever receive
C13_Witness ==
    /\ ctxDone
    /\ mpc = "send" /\ Len(incidentChannel) = ChanCap
    /\ opc = "exited"

\* C14: in the shutdown sequence of main, detector.Stop() returns and main
\* runs to its end.
C14_ShutdownCompletes == (mainpc = "detectorStop") ~> (mainpc = "exited")

\* main is in the send of detector.Stop() on the unbuffered stop channel and
\* the monitor has returned through ctx.Done(): no receiver is left
C14_Witness ==
    /\ mainpc = "detectorStop"
    /\ mpc = "exited"
    /\ incidentChannel = <<>>

\* once the context is cancelled, no event leaves the channel and the
\* executor takes no step for the incident in processing
C15_Step ==
    ctxDone =>
        /\ Len(incidentChannel') >= Len(incidentChannel)
        /\ opc \in ExecutorPcs \cup {"restartCheck"} => opc' = opc
        /\ cur' # 0 => cur' = cur

\* C15: once the context is cancelled, the Orchestrator dequeues no further
\* incident, and applies no further stop, start or configuration change to
\* the service for the incident it is processing.
C15_NoStepAfterStop == [][C15_Step]_vars

\* main has cancelled the context and stopped the service, and the service
\* runs again: the executor started it for the incident in processing
C15_Witness ==
    /\ ctxDone /\ mainpc \in {"summary", "exited"}
    /\ cur # 0 /\ opc = "verify"
    /\ svc.isRunning

\* the ids of the events the monitor has sent, in the order it sent them
EmittedIds == [k \in 1..Len(emits) |-> hist.loaded + k]

\* the channel never holds more than its capacity; the events received so
\* far followed by the events in the channel are the events sent, each once
\* and in the order sent; an event waiting in the send is the next one
C16_State ==
    /\ Len(incidentChannel) <= ChanCap
    /\ hist.delivered \o incidentChannel = EmittedIds
    /\ mpc = "send" => mloc.incident = hist.loaded + Len(emits) + 1

\* while the channel is full the monitor stays in the send with its event,
\* and the channel changes only by a receive of its head
C16_Step ==
    (mpc = "send" /\ Len(incidentChannel) = ChanCap) =>
        /\ mpc' = "send" /\ mloc' = mloc /\ emits' = emits
        /\ incidentChannel' \in {incidentChannel, Tail(incidentChannel)}

\* the events that can be sent in one behaviour
MaxEvents == 2 * ChanCap + 1 + MaxSamples

\* C16: the channel holds at most ChanCap events; when it is full the monitor
\* waits in the send with its event, nothing is dropped or overwritten; every
\* event sent is eventually received by the Orchestrator, exactly once, and
\* the events are received in the order they were sent.
C16_Backpressure ==
    /\ [](C16_State)
    /\ [][C16_Step]_vars
    /\ (mpc = "send") ~> (mpc = "select")
    /\ \A k \in 1..MaxEvents :
          (Len(emits) >= k) ~> (Len(hist.delivered) >= k /\ hist.delivered[k] = hist.loaded + k)

\* the event the monitor held while the channel was full has been received,
\* after all the events that were queued before it
C16_Witness ==
    /\ Len(hist.delivered) = 2 * ChanCap + 1
    /\ hist.delivered[2 * ChanCap + 1] = 2 * ChanCap + 2
    /\ cur = 2 * ChanCap + 2

\* the monitor has taken exactly these samples and is back in its select
Sampled(seq) == samples = seq /\ mpc = "select"

\* C17 as stated: when the first three samples are unhealthy, healthy,
\* unhealthy, exactly one event is sent, at the third sample.
C17_Original == Sampled(<<FALSE, TRUE, FALSE>>) => emits = <<3>>

\* C17 as amended: when the first three samples are unhealthy, healthy,
\* unhealthy, two events are sent, one at the first sample (previousHealthy
\* starts true, so an unhealthy first sample is an edge) and one at the
\* third; none is sent at the second.
C17_Amended ==
    /\ Sampled(<<FALSE>>) => emits = <<1>>
    /\ Sampled(<<FALSE, TRUE>>) => emits = <<1>>
    /\ Sampled(<<FALSE, TRUE, FALSE>>) => emits = <<1, 3>>

\* the three samples were taken and two incidents were created and sent
C17_Witness ==
    /\ Sampled(<<FALSE, TRUE, FALSE>>)
    /\ Len(emits) = 2
    /\ Len(inc) = hist.loaded + 2
    /\ Len(hist.delivered) + Len(incidentChannel) = 2

\* the incidents createIncident has made in this run
Classified == {id \in DOMAIN inc : id > hist.loaded}

\* the rules, as conditions on the answer of GET /status
InvalidUrl(st)      == st.database_url \in {Some(""), Some("invalid::url::format")}
UnreachableUrl(st)  == st.database_url = Some("unreachable-host:9999")
InvalidTimeout(st)  == st.timeout = Some("not-a-number")
NotRunning(st)      == st.running = Some(FALSE)
ResourceInLogs(st)  == \E i \in 1..Len(st.recent_logs) : ResourceKeyword(st.recent_logs[i])

AbsentUrl(st)    == st.database_url = None
EmptyUrl(st)     == st.database_url = Some("")
MalformedUrl(st) == st.database_url \in {Some("invalid::url::format"), Some("not a url")}

\* C19 as stated: an answer whose dependency URL is absent, empty or
\* malformed is classified ConfigError, whatever the other fields hold.
C19_Original ==
    \A id \in Classified :
        (AbsentUrl(mloc.status) \/ EmptyUrl(mloc.status) \/ MalformedUrl(mloc.status))
            => inc[id].Type = ConfigError

\* C19 as amended: an answer whose dependency URL is the empty string or the
\* marker "invalid::url::format" is classified ConfigError, whatever the other
\* fields hold; an answer whose URL is absent (the empty answer of a failed
\* request included) or is any other text is classified by the later rules,
\* as if the URL were valid.
C19_Amended ==
    \A id \in Classified :
        LET st == mloc.status
        IN  /\ (EmptyUrl(st) \/ st.database_url = Some("invalid::url::format"))
                  => inc[id].Type = ConfigError
            /\ (AbsentUrl(st) \/ st.database_url = Some("not a url"))
                  => inc[id].Type =
                        analyzeSymptoms(mloc.health,
                                        [st EXCEPT !.database_url = Some("localhost:5432")])[1]

\* the empty URL was classified ConfigError although the service is stopped
\* and the logs hold resource keywords
C19_Witness ==
    /\ Classified # {}
    /\ EmptyUrl(mloc.status)
    /\ NotRunning(mloc.status) /\ ResourceInLogs(mloc.status)
    /\ \A id \in Classified : inc[id].Type = ConfigError

C21_Sampling == samples' # samples

\* what the loop does with an unhealthy sample: an incident when the previous
\* sample was healthy, otherwise nothing but remembering the sample
C21_UnhealthyRule ==
    /\ samples' = Append(samples, FALSE)
    /\ IF previousHealthy
       THEN mpc' = "analyze" /\ ~mloc'.health.Healthy
       ELSE mpc' = "select" /\ previousHealthy' = FALSE

C21_Step ==
    /\ C21_Sampling /\ ~svc.isRunning => C21_UnhealthyRule
    /\ C21_Sampling /\ svc.isRunning /\ ~svc.isHealthy => C21_UnhealthyRule
    /\ C21_Sampling /\ ~svc.isRunning =>
          hist'.failedProbes = hist.failedProbes + 1
    /\ hist.failedProbes > 0 => mpc' # "exited"

C22_FellBack ==
    \/ ~useAI
    \/ hist'.aiOut # None /\ AnalyzeIncidentErr(hist'.aiOut[1])

C22_WellFormed(plan) ==
    /\ plan.Diagnosis # ""
    /\ plan.FixType \in {"restart", "config", "code"}
    /\ Len(plan.FixSteps) > 0

C22_Step ==
    opc = "analyze" /\ opc' # "analyze" =>
       /\ oloc'.aiResponse # None
       /\ C22_WellFormed(oloc'.aiResponse[1])
       /\ C22_FellBack => /\ oloc'.aiResponse[1] = GetQuickAnalysis(inc[cur].Type)
                          /\ inc'[cur].Diagnosis # ""
       /\ opc' \in {"configStep", "stop"}
       /\ hist'.execFailed = hist.execFailed
       /\ inc'[cur].Status = StatusFixing

\* C22: for an incident of any type, one of the four classes or not, the plan
\* the analysis hands to ExecuteFix (the Diagnosis Source's when it was
\* accepted, the fallback's otherwise) has a diagnosis, a fix type among
\* restart, config and code, and at least one step, and ExecuteFix starts to
\* run it: its unknown-fix-type branch is not taken.
C22_FallbackPlanIsExecutable ==
    [][C22_Step]_vars

\* the fallback plan of an incident of no known type is being executed
C22_Witness ==
    /\ cur # 0 /\ inc[cur].Type \notin IncidentType
    /\ opc = "stop" /\ oloc.path = "diag"
    /\ oloc.aiResponse = Some(GetQuickAnalysis(inc[cur].Type))
    /\ inc[cur].Diagnosis = "Unknown incident type"
    /\ inc[cur].Status = StatusFixing

\* ------------------------------------------------------------------- C23

\* the fix type of the plan the executor is running
RunningFixType ==
    IF oloc.path = "cached" THEN oloc.cachedFix[1].FixType
    ELSE IF oloc.path = "diag" THEN oloc.aiResponse[1].FixType
    ELSE "none"

\* the executor returned an error in this step
ExecutorFailsNow ==
    /\ hist'.execFailed = oloc.path
    /\ IF oloc.path = "cached"
       THEN opc' = "analyzing"
       ELSE /\ opc' = "select"
            /\ inc'[cur].Status = StatusFailed
            /\ hist'.resolution # None /\ ~hist'.resolution[1].Success

\* the executor returned nil in this step
ExecutorSucceedsNow ==
    /\ opc' = "verify"
    /\ hist'.execFailed = hist.execFailed
    /\ oloc.path = "diag" =>
          /\ hist'.resolution # None /\ hist'.resolution[1].Success
          /\ inc'[cur].Resolution = hist'.resolution

C23_Step ==
    /\ opc = "stop" /\ opc' # "stop" /\ RunningFixType = "restart" =>
          /\ svc' = Stop(svc)
          /\ opc' = "start"
          /\ hist'.execFailed = hist.execFailed
    /\ opc = "start" /\ opc' # "start" /\ RunningFixType = "restart" =>
          IF svc.isRunning
          THEN svc' = svc /\ ExecutorFailsNow
          ELSE svc' = Start(svc) /\ ExecutorSucceedsNow

\* C23: on a restart plan the executor calls Stop and then Start whatever Stop
\* returned, and it returns nil exactly when Start did; nothing in these two
\* steps depends on the steps of the plan.
C23_RestartOutcomeIsStartOutcome ==
    [][C23_Step]_vars

\* a restart plan succeeded although its Stop found the service not running
C23_Witness ==
    /\ opc = "verify"
    /\ RunningFixType = "restart"
    /\ hist.stopErr
    /\ svc.isRunning

\* ------------------------------------------------------------------- C24

\* the step names a setting and a value applyConfigStep recognizes
C24_Recognized(step) ==
    \/ /\ "database_url" \in Keywords(step)
       /\ Keywords(step) \cap {"localhost:5432", "restore"} # {}
    \/ /\ "timeout" \in Keywords(step)
       /\ Keywords(step) \cap {"30s", "restore", "reset"} # {}
    \/ /\ "retries" \in Keywords(step)
       /\ Keywords(step) \cap {"3", "restore"} # {}

\* the executor starts on a config plan in this step
C24_Enters ==
    /\ opc \in {"lookup", "analyze", "execute"}
    /\ oloc'.path \in {"cached", "diag"}
    /\ opc' \notin {"select", "analyzing"}
    /\ (IF oloc'.path = "cached" THEN oloc'.cachedFix[1].FixType
        ELSE oloc'.aiResponse[1].FixType) = "config"

C24_Step ==
    /\ C24_Enters =>
          opc' = IF Len(oloc'.steps) > 0 THEN "configStep" ELSE "stop"
    /\ opc = "configStep" /\ oloc' # oloc =>
          /\ RunningFixType = "config"
          /\ hist'.execFailed = hist.execFailed
          /\ oloc'.next = oloc.next + 1
          /\ opc' = IF oloc.next < Len(oloc.steps) THEN "configStep" ELSE "stop"
          /\ svc'.isRunning = svc.isRunning /\ svc'.isHealthy = svc.isHealthy
          /\ ~C24_Recognized(oloc.steps[oloc.next]) => svc' = svc
    /\ opc = "stop" /\ opc' # "stop" /\ RunningFixType = "config" =>
          /\ svc' = Stop(svc)
          /\ opc' = IF svc.isRunning THEN "start" ELSE "restartCheck"
          /\ hist'.execFailed = hist.execFailed
    /\ opc = "restartCheck" /\ opc' # "restartCheck" /\ RunningFixType = "config" =>
          /\ svc' = svc
          /\ IF svc.isRunning THEN ExecutorFailsNow
             ELSE opc' = "start" /\ hist'.execFailed = hist.execFailed
    /\ opc = "start" /\ opc' # "start" /\ RunningFixType = "config" =>
          IF svc.isRunning
          THEN svc' = svc /\ ExecutorFailsNow
          ELSE svc' = Start(svc) /\ ExecutorSucceedsNow

\* C24: on a config plan every step is applied without an error, a step that
\* names no recognized setting changes nothing, and after the last step (at
\* once when the plan has no step) the executor runs Restart on the service;
\* the plan fails exactly when that Restart fails.
C24_ConfigPlanAlwaysRestarts ==
    [][C24_Step]_vars

\* a config plan none of whose steps was recognized has returned nil: the
\* configuration is as the fault left it and the service was restarted
C24_Witness ==
    /\ opc = "verify"
    /\ RunningFixType = "config"
    /\ oloc.steps = GetQuickAnalysis(DependencyFailure).FixSteps
    /\ \A i \in 1..Len(oloc.steps) : ~C24_Recognized(oloc.steps[i])
    /\ svc.database_url = "unreachable-host:9999"
    /\ svc.isRunning /\ hist.remediated

\* ------------------------------------------------------------------- C25

\* the configuration of the service
C25_Config(s) == <<s.database_url, s.timeout, s.max_retries>>

C25_Step ==
    /\ opc = "execute" /\ opc' # "execute" /\ oloc'.aiResponse # None
                       /\ oloc'.aiResponse[1].FixType = "code" =>
          opc' = "stop" /\ svc' = svc /\ oloc'.viaRestart
    /\ opc = "lookup" /\ opc' # "lookup" /\ HasLearnedFix(fixes, inc[cur].Type)
                      /\ fixes[inc[cur].Type].FixType = "code" =>
          opc' = "stop" /\ svc' = svc /\ oloc'.viaRestart
    /\ opc \in {"stop", "restartCheck", "start"} /\ opc' # opc
                      /\ RunningFixType = "code" =>
          /\ C25_Config(svc') = C25_Config(svc)
          /\ svc'.errorLogs = svc.errorLogs
          /\ opc = "stop" =>
                /\ svc' = Stop(svc)
                /\ opc' = IF svc.isRunning THEN "start" ELSE "restartCheck"
          /\ opc = "restartCheck" =>
                IF svc.isRunning THEN ExecutorFailsNow ELSE opc' = "start"
          /\ opc = "start" =>
                IF svc.isRunning THEN svc' = svc /\ ExecutorFailsNow
                ELSE svc' = Start(svc) /\ ExecutorSucceedsNow
    /\ opc = "verify" /\ RunningFixType = "code" /\ oloc.path = "diag"
                      /\ inc'[cur].Status = StatusResolved =>
          /\ HasLearnedFix(fixes', inc[cur].Type)
          /\ fixes'[inc[cur].Type] = NewResolution(oloc.aiResponse[1], TRUE)

\* C25: on a code plan the executor changes neither the configuration nor
\* anything else but what Restart changes; ExecuteFix returns a Resolution
\* with Success = true exactly when that Restart returned nil, and when the
\* verification then passes the incident is Resolved and the code plan is the
\* learned fix of its type.
C25_CodePlanIsARestart ==
    [][C25_Step]_vars

\* an incident is Resolved by a code plan that carries code, and the plan is
\* cached for its type
C25_Witness ==
    /\ opc = "select" /\ Len(inc) = 1
    /\ inc[1].Status = StatusResolved
    /\ inc[1].Resolution # None
    /\ inc[1].Resolution[1].FixType = "code"
    /\ inc[1].Resolution[1].Code # ""
    /\ inc[1].Resolution[1].Success
    /\ HasLearnedFix(fixes, inc[1].Type)
    /\ fixes[inc[1].Type] = inc[1].Resolution[1]
    /\ hist.verdictPath = "diag"

\* ------------------------------------------------------------------- C26

C26_Step ==
    /\ opc = "execute" /\ opc' # "execute" /\ oloc'.aiResponse # None
                       /\ oloc'.aiResponse[1].FixType \notin validFixTypes =>
          /\ svc' = svc
          /\ opc' = "select"
          /\ hist'.execFailed = "diag"
          /\ hist'.resolution = Some(NewResolution(oloc'.aiResponse[1], FALSE))
          /\ ~hist'.resolution[1].Success
          /\ ~hist'.remediated
          /\ inc'[cur].Status = StatusFailed
          /\ inc'[cur].Resolution = None
    /\ opc = "lookup" /\ opc' # "lookup" /\ HasLearnedFix(fixes, inc[cur].Type)
                      /\ fixes[inc[cur].Type].FixType \notin validFixTypes =>
          /\ svc' = svc
          /\ opc' = "analyzing"
          /\ hist'.execFailed = "cached"
          /\ ~hist'.remediated
          /\ inc'[cur].Status = inc[cur].Status

\* C26: given a fix type other than restart, config and code, ExecuteFix and
\* ApplyCachedFix return an error in one step in which the service (running
\* flag, health flag, configuration, logs) does not change; the Resolution
\* ExecuteFix returns has Success = false.
C26_UnknownFixTypeFailsFast ==
    [][C26_Step]_vars

\* ExecuteFix has refused a plan of an unknown fix type: the incident is
\* Failed and the executor has not touched the service
C26_Witness ==
    /\ opc = "select" /\ Len(inc) = 1
    /\ inc[1].Status = StatusFailed
    /\ hist.execFailed = "diag"
    /\ hist.resolution # None
    /\ hist.resolution[1].FixType = "reboot"
    /\ ~hist.resolution[1].Success
    /\ ~hist.remediated
    /\ svc.isRunning /\ ~svc.isHealthy

\* ------------------------------------------------------------------- C27

\* the stored incidents of a type that are Resolved with a successful Resolution
C27_Resolved(type) ==
    { i \in storeIncidents : /\ inc[i].Type = type
                             /\ inc[i].Status = StatusResolved
                             /\ inc[i].Resolution # None
                             /\ inc[i].Resolution[1].Success }

\* the one of them that was stored last (incidents are processed one at a
\* time, in the order of their ids)
C27_Last(type) ==
    CHOOSE i \in C27_Resolved(type) : \A j \in C27_Resolved(type) : j <= i

\* the cache holds, for every type, the Resolution stored last
C27_State ==
    \A type \in IncidentType :
        C27_Resolved(type) # {} =>
            /\ HasLearnedFix(fixes, type)
            /\ fixes[type] = inc[C27_Last(type)].Resolution[1]

C27_Step ==
    /\ C27_State'
    /\ cur # 0 /\ inc[cur].Status # StatusResolved
               /\ inc'[cur].Status = StatusResolved
               /\ inc'[cur].Resolution # None /\ inc'[cur].Resolution[1].Success =>
          /\ DOMAIN fixes' = DOMAIN fixes \cup {inc[cur].Type}
          /\ fixes'[inc[cur].Type] = inc'[cur].Resolution[1]
          /\ \A t \in DOMAIN fixes \ {inc[cur].Type} : fixes'[t] = fixes[t]
    /\ opc = "lookup" /\ opc' # "lookup" /\ HasLearnedFix(fixes, inc[cur].Type) =>
          /\ oloc'.cachedFix = Some(fixes[inc[cur].Type])
          /\ C27_Resolved(inc[cur].Type) # {} =>
                oloc'.cachedFix = inc[C27_Last(inc[cur].Type)].Resolution
    /\ opc = "lookup" /\ opc' # "lookup" /\ ~HasLearnedFix(fixes, inc[cur].Type) =>
          C27_Resolved(inc[cur].Type) = {}

\* C27: storing an incident that is Resolved with a successful Resolution
\* makes that Resolution the cache entry of the incident's type, replacing
\* the entry the type had, and changes the entry of no other type; a lookup
\* returns the Resolution stored last for the type.
C27_NewestFixReplaces ==
    [][C27_Step]_vars

\* the entry the document brought for SERVICE_DOWN was replaced by the plan of
\* a later incident, and the lookup of the next incident returned the new one
C27_Witness ==
    /\ hist.loaded = 1
    /\ oloc.path = "cached"
    /\ inc[cur].Type = ServiceDown
    /\ oloc.cachedFix # Some(Load(EarlierDocument).fixes[ServiceDown])
    /\ oloc.cachedFix = inc[cur - 1].Resolution
    /\ inc[cur - 1].Status = StatusResolved

\* ------------------------------------------------------------------- C28

\* the maps of the store: id -> incident, type -> Resolution
C28_Incidents == [id \in storeIncidents |-> inc[id]]

\* the save of this step wrote the document
C28_Saved == disk' # disk /\ disk'.state = "ok"

C28_Step ==
    C28_Saved =>
       /\ DOMAIN Load(disk').incidents = storeIncidents'
       /\ \A id \in storeIncidents' : Load(disk').incidents[id] = inc'[id]
       /\ DOMAIN Load(disk').fixes = DOMAIN fixes'
       /\ \A t \in DOMAIN fixes' : Load(disk').fixes[t] = fixes'[t]

C29_Step ==
    mainpc = "newStore" /\ mainpc' # "newStore" =>
       /\ mainpc' = "wait"
       /\ opc' = "select" /\ mpc' = "select"
       /\ disk' = disk
       /\ disk.state # "ok" =>
             /\ storeIncidents' = storeIncidents /\ storeIncidents' = {}
             /\ fixes' = fixes /\ DOMAIN fixes' = {}
             /\ inc' = <<>>
             /\ hist'.loaded = 0

\* C29: when the persisted document is absent or cannot be decoded, NewStore
\* returns a store whose incident map and fix map are the empty maps it made
\* before the load, and main goes on to "System ready".
C29_StartsEmptyWithoutDocument ==
    [][C29_Step]_vars

\* the program started on a document that cannot be decoded, with an empty
\* store, and has stored its first incident
C29_Witness ==
    /\ mainpc = "wait"
    /\ hist.loaded = 0
    /\ storeIncidents = {1}
    /\ fixes = <<>>
    /\ disk = CorruptDocument
    /\ saveFailures = 1

\* ------------------------------------------------------------------- C30

\* a save failed in this step
C30_SaveFailed == saveFailures' = saveFailures + 1

\* the incidents of this run whose processIncident has returned
C30_Returned == { id \in hist.started : id > hist.loaded /\ id \notin hist.inFlight }

C30_Step ==
    /\ C30_SaveFailed =>
          /\ disk' # StoredData(inc', storeIncidents', fixes')
          /\ opc = "select" =>
                /\ opc' = "lookup"
                /\ storeIncidents' = storeIncidents \cup {cur'}
                /\ inc'[cur'].Status = StatusDetected
          /\ opc = "analyzing" =>
                opc' = "analyze" /\ inc'[cur].Status = StatusAnalyzing
          /\ opc = "analyze" =>
                opc' \in {"configStep", "stop"} /\ inc'[cur].Status = StatusFixing
          /\ opc \in {"start", "verify"} =>
                /\ opc' = "select"
                /\ inc'[cur].Status \in {StatusResolved, StatusFailed}
                /\ inc'[cur].Status = StatusResolved <=>
                      opc = "verify" /\ VerifyPasses(oloc.i, checkHealth(svc).Healthy)
                /\ inc'[cur].Status = StatusResolved =>
                      /\ HasLearnedFix(fixes', inc[cur].Type)
                      /\ fixes'[inc[cur].Type] = inc'[cur].Resolution[1]
                /\ inc'[cur].Status = StatusFailed => fixes' = fixes
          /\ opc \in {"select", "analyzing", "analyze", "start", "verify"}
    /\ \A id \in C30_Returned' :
          inc'[id].Status \in {StatusResolved, StatusFailed}

\* C30: a step of processIncident whose save fails updates the incident, the
\* incident map and the fix cache and moves on exactly as the step does when
\* the save succeeds; every incident whose processing has returned is
\* Resolved or Failed.
C30_SaveFailureDoesNotStopProcessing ==
    [][C30_Step]_vars

\* an incident was Resolved and its fix learned in memory although the save
\* of that step failed: the document does not show it Resolved
C30_Witness ==
    /\ opc = "select"
    /\ saveFailures = 1
    /\ \E id \in C30_Returned :
          /\ inc[id].Status = StatusResolved
          /\ HasLearnedFix(fixes, inc[id].Type)
          /\ fixes[inc[id].Type] = inc[id].Resolution[1]
          /\ \/ disk.state # "ok"
             \/ id \notin DOMAIN disk.incidents
             \/ disk.incidents[id].status # StatusResolved

\* ------------------------------------------------------------------- C31

\* The accesses to the fields of TargetService (isRunning, isHealthy, config,
\* errorLogs) that the next step of each goroutine makes, with the lock of
\* ts.mu under which the code makes them: "exclusive" (Lock), "shared"
\* (RLock) or "none".
Access(field, write, lock) == [field |-> field, write |-> write, lock |-> lock]

\* Start: Lock; isRunning is read, and both flags are written when it is false
StartAccesses(s) ==
    {Access("isRunning", FALSE, "exclusive")}
    \cup IF s.isRunning THEN {}
         ELSE {Access("isRunning", TRUE, "exclusive"), Access("isHealthy", TRUE, "exclusive")}

\* Stop: Lock; isRunning is read, and both flags are written when it is true
StopAccesses(s) ==
    {Access("isRunning", FALSE, "exclusive")}
    \cup IF s.isRunning
         THEN {Access("isRunning", TRUE, "exclusive"), Access("isHealthy", TRUE, "exclusive")}
         ELSE {}

\* SetConfig: Lock
SetConfigAccesses == {Access("config", TRUE, "exclusive")}

\* handleTriggerIncident: Lock around the whole switch (addLog is called inside)
TriggerAccesses ==
    {Access("isHealthy", TRUE, "exclusive"), Access("config", TRUE, "exclusive"),
     Access("errorLogs", TRUE, "exclusive")}

\* handleHealth: RLock
HealthAccesses(s) ==
    IF s.isRunning THEN {Access("isHealthy", FALSE, "shared")} ELSE {}

\* handleStatus: RLock
StatusAccesses(s) ==
    IF s.isRunning
    THEN {Access("isRunning", FALSE, "shared"), Access("isHealthy", FALSE, "shared"),
          Access("config", FALSE, "shared"), Access("errorLogs", FALSE, "shared")}
    ELSE {}

\* Restart, line 142: "err != nil && ts.isRunning" reads the flag after Stop
\* has returned and released the lock
RestartCheckAccesses == {Access("isRunning", FALSE, "none")}

Goroutines == {"monitor", "orchestrator", "runDemo", "main", "client"}

\* the accesses of the next step of goroutine g
NextAccesses(g) ==
    CASE g = "monitor" ->
           IF ~Alive THEN {}
           ELSE IF mpc = "select" /\ Len(samples) < MaxSamples THEN HealthAccesses(svc)
           ELSE IF mpc \in {"analyze", "fetchLogs"} THEN StatusAccesses(svc)
           ELSE {}
      [] g = "orchestrator" ->
           IF ~Alive THEN {}
           ELSE IF opc = "configStep" THEN SetConfigAccesses
           ELSE IF opc = "stop" THEN StopAccesses(svc)
           ELSE IF opc = "restartCheck" THEN RestartCheckAccesses
           ELSE IF opc = "start" THEN StartAccesses(svc)
           ELSE IF opc = "verify" THEN HealthAccesses(svc)
           ELSE {}
      [] g = "runDemo" ->
           IF ~Alive THEN {}
           ELSE IF demo.pc = "stop" THEN StopAccesses(svc)
           ELSE IF demo.pc = "start" THEN StartAccesses(svc)
           ELSE IF demo.pc = "trigger" /\ svc.isRunning THEN TriggerAccesses
           ELSE {}
      [] g = "main" ->
           IF mainpc = "serviceStop" THEN StopAccesses(svc) ELSE {}
      [] g = "client" ->
           IF Alive /\ svc.isRunning /\ faults < MaxFaults /\ demo = DemoOff
           THEN TriggerAccesses ELSE {}

\* two accesses that the lock does not order: the same field, one of them a
\* write, and one of them made without the lock
Races(a, b) ==
    /\ a.field = b.field
    /\ a.write \/ b.write
    /\ a.lock = "none" \/ b.lock = "none"

DataRace ==
    \E g \in Goroutines :
        \E h \in Goroutines \ {g} :
            \E a \in NextAccesses(g), b \in NextAccesses(h) : Races(a, b)

\* C31: in no reachable state are two goroutines about to access the same
\* field of the service, one of them writing, unless both hold ts.mu (every
\* access is made under the lock, so none can be concurrent with a write).
C31_NoDataRace ==
    ~DataRace

\* Restart is about to read isRunning without the lock while runDemo is
\* about to set it in Start
C31_Witness ==
    /\ opc = "restartCheck"
    /\ demo.pc = "start"
    /\ ~svc.isRunning
    /\ Access("isRunning", TRUE, "exclusive") \in NextAccesses("runDemo")
    /\ NextAccesses("orchestrator") = RestartCheckAccesses

\* ------------------------------------------------------------------- C32

\* the ids an incident can have within the bounds: the one loaded at startup
\* and one per rising edge
C32_Ids == 1..(1 + MaxSamples)

\* processIncident has returned for id, which is Resolved or Failed, and
\* handleIncidents is back at its select
C32_Done(id) ==
    /\ id \in DOMAIN inc
    /\ id \notin hist.inFlight
    /\ inc[id].Status \in {StatusResolved, StatusFailed}
    /\ opc = "select" /\ cur = 0

\* C32: every incident the Orchestrator dequeues is eventually Resolved or
\* Failed with processIncident returned and the handler ready to receive
\* again, when the interrupt does not arrive and every step that can be taken
\* is taken.
C32_EveryIncidentTerminates ==
    \A id \in C32_Ids : (cur = id) ~> C32_Done(id)

\* an incident whose cached fix failed has ended Resolved or Failed
C32_Witness ==
    /\ hist.id # 0 /\ C32_Done(hist.id)
    /\ hist.cacheHit = "hit" /\ hist.cachedFailed
    /\ hist.id > hist.loaded

\* ------------------------------------------------------------------- C33

\* the executor has stopped the service and not yet started it
C33_Window == opc \in {"start", "restartCheck"} /\ ~svc.isRunning

\* the monitor takes a sample inside the window in this step
C33_SampleInWindow == samples' # samples /\ C33_Window

\* C33 as stated: a sample taken while the executor has stopped a service
\* that was running and healthy raises no incident.
C33_Original ==
    [][C33_SampleInWindow /\ hist.stoppedHealthy => mpc' # "analyze"]_vars

\* C33, corrected: the monitor does not know of the executor. A sample taken
\* in the stop/start window is a failed probe, and it raises an incident
\* exactly when the previous sample was healthy.
C33_Amended ==
    [][C33_SampleInWindow =>
          /\ samples' = Append(samples, FALSE)
          /\ mpc' = "analyze" <=> previousHealthy]_vars

\* an incident is being created from a sample taken while the executor had
\* stopped a healthy service
C33_Witness ==
    /\ mpc \in {"analyze", "fetchLogs", "send"}
    /\ mloc.health.StatusCode = 0
    /\ C33_Window
    /\ hist.stoppedHealthy

\* ------------------------------------------------------------------- C34

\* the service answers its health probe with 200
C34_Healthy == svc.isRunning /\ svc.isHealthy

\* the incident being processed was queued while an earlier one was being
\* processed, and the service was healthy when it was dequeued
C34_LateAndHealthy == cur # 0 /\ cur \in hist.busySent /\ hist.healthyAtDequeue

\* C34 as stated: the executor does not stop a healthy service for an
\* incident that was queued behind an earlier one and found the service
\* healthy when it was dequeued.
C34_Original ==
    [][C34_LateAndHealthy /\ C34_Healthy => ~(opc = "stop" /\ opc' # "stop")]_vars

\* C34, corrected: processIncident never looks at the health of the service
\* before it remediates. An incident that was queued behind an earlier one and
\* found the service healthy when it was dequeued is remediated like any
\* other: processIncident does not return before the executor has called Stop.
C34_Amended ==
    (hist.id # 0 /\ hist.id \in hist.busySent /\ hist.healthyAtDequeue /\ cur = 0)
        => hist.stopCalled

\* processIncident has returned for an incident queued behind an earlier one,
\* after the executor stopped the healthy service for it
C34_Witness ==
    /\ hist.id # 0 /\ hist.id \in hist.busySent /\ hist.healthyAtDequeue
    /\ cur = 0 /\ opc = "select"
    /\ hist.stopCalled /\ hist.stoppedHealthy

\* ------------------------------------------------------------------- C35

\* the Resolution ExecuteFix builds from the fallback plan of a type
C35_FallbackResolution(type) == Some(NewResolution(GetQuickAnalysis(type), TRUE))

\* in this step the incident being processed reaches Resolved through the
\* fallback plan of its type, and no fault was triggered since it was dequeued
C35_Resolves(type) ==
    /\ cur # 0 /\ inc[cur].Type = type
    /\ oloc.path = "diag" /\ oloc.aiResponse = Some(GetQuickAnalysis(type))
    /\ inc[cur].Status # StatusResolved /\ inc'[cur].Status = StatusResolved
    /\ faults' = hist.faultsAtDequeue

\* the two settings the classifier reads hold their known-good values
C35_KnownGood(s) == s.database_url = "localhost:5432" /\ s.timeout = "30s"

C36_Consistent(i) ==
    /\ i.ResolvedAt <=> i.Status = StatusResolved
    /\ i.Status = StatusResolved =>
           i.Resolution # None /\ i.Resolution[1].Success

\* C36: in every reachable state every incident, in memory and in the stored
\* document, has resolvedAt set if and only if its status is Resolved, and a
\* Resolved incident has a Resolution with success = true.
C36_ResolvedIffStamped ==
    /\ \A id \in DOMAIN inc : C36_Consistent(inc[id])
    /\ disk.state = "ok" =>
           \A id \in DOMAIN disk.incidents :
               C36_Consistent(decodeIncident(disk.incidents[id]))

\* two incidents of this run are Resolved, one on each path, and both are in
\* the stored document
C36_Witness ==
    /\ \E id \in DOMAIN inc :
           /\ id > hist.loaded
           /\ inc[id].Status = StatusResolved /\ inc[id].UsedCachedFix
    /\ \E id \in DOMAIN inc :
           /\ id > hist.loaded
           /\ inc[id].Status = StatusResolved /\ ~inc[id].UsedCachedFix
    /\ disk.state = "ok"
    /\ \A id \in DOMAIN inc :
           id \in DOMAIN disk.incidents /\ disk.incidents[id].status = inc[id].Status

\* ------------------------------------------------------------------- C37

\* the incident carries a Resolution marked successful
C37_MarkedSuccessful(i) == i.Resolution # None /\ i.Resolution[1].Success

C37_ReturnedFailed ==
    hist.id # 0 /\ cur = 0 /\ inc[hist.id].Status = StatusFailed

C38_Creates == mpc = "fetchLogs" /\ mpc' = "send" /\ Len(inc') = Len(inc) + 1

\* the incident built in this step
C38_New == inc'[Len(inc')]

\* C38 as stated: the class, the symptoms and the logs of a new incident are
\* those of the workload as it was at the probe that raised it.
C38_Original ==
    [][C38_Creates =>
          LET r == analyzeSymptoms(mloc.health, hist.sampledStatus)
          IN  /\ C38_New.Type = r[1]
              /\ C38_New.Symptoms = r[2]
              /\ C38_New.Logs = hist.sampledStatus.recent_logs]_vars

\* C38, corrected: the incident is put together from three requests made one
\* after the other. The class and the symptoms come from the status fetched
\* for the classification, the logs from a second status fetched afterwards,
\* each as the workload was at its own request; they describe the state of
\* the probe only when the workload did not change in between.
C38_Amended ==
    [][C38_Creates =>
          LET r == analyzeSymptoms(mloc.health, hist.analyzedStatus)
          IN  /\ C38_New.Type = r[1]
              /\ C38_New.Symptoms = r[2]
              /\ C38_New.Logs = fetchServiceStatus(svc).recent_logs
              /\ (hist.analyzedStatus = hist.sampledStatus /\
                  fetchServiceStatus(svc) = hist.sampledStatus)
                     => C38_New.Logs = hist.sampledStatus.recent_logs]_vars

\* logs that no classification snapshot held: the class of the newest
\* incident was computed from one status and its logs come from another
C38_Witness ==
    /\ mpc = "send" /\ mloc.incident = Len(inc)
    /\ inc[Len(inc)].Type = ServiceDown
    /\ \E i \in 1..Len(inc[Len(inc)].Logs) : ResourceKeyword(inc[Len(inc)].Logs[i])

\* ------------------------------------------------------------------- C39

\* C39 as stated: after a load that left a nil map in the store, StoreIncident
\* does not fault.
C39_NoFaultAfterNullLoad ==
    nilMaps # {} => opc # "panicked"

\* the store was loaded from a document without the fixes mapping; an incident
\* was verified and marked Resolved, StoreIncident panicked at the write to
\* the FixCache, and the stored document still holds the incident as Fixing
C39_Witness ==
    /\ nilMaps = {"fixes"}
    /\ opc = "panicked" /\ ~Alive
    /\ cur # 0 /\ inc[cur].Status = StatusResolved
    /\ fixes = <<>>
    /\ disk.state = "ok" /\ cur \in DOMAIN disk.incidents
    /\ disk.incidents[cur].status = StatusFixing

====
